---- MODULE Spec2Model ----
(***************************************************************************)
(* Model of the calendar assignment engine of YBS Print Calander           *)
(* (src/ybs_print_calander/gui.py, class YBSApp): the day-keyed store      *)
(* (notes and assignments), the snapshot based undo/redo history, the      *)
(* debounced save timer, the press/drag/release gesture and the message    *)
(* queue drained by _poll_queue, which applies drops.                      *)
(*                                                                         *)
(* Conventions.                                                            *)
(*   - A Python dict is a function whose DOMAIN is the set of its keys.    *)
(*   - A Python list or tuple is a sequence; list index i is position i+1. *)
(*   - A str that the code parses (file keys, note texts) is a sequence of *)
(*     one-character strings; a str that is only compared (order number,   *)
(*     company) is a string.                                               *)
(*   - A value that may be None is <<>> for None and <<v>> for v.          *)
(***************************************************************************)
EXTENDS Integers, Sequences, FiniteSets, TLC

VARIABLES
    calendar_notes,        \* self._calendar_notes: DateKey -> text
    calendar_assignments,  \* self._calendar_assignments: DateKey -> list of (order, company)
    undo_stack,            \* self._undo_stack
    redo_stack,            \* self._redo_stack
    state_save_after_id,   \* self._state_save_after_id is not None
    timers,                \* number of root.after timers that will call _save_state
    queue,                 \* self._queue, oldest message first
    drag_data,             \* self._drag_data
    calendar_hover,        \* self._calendar_hover: the day highlighted under the pointer
    pointer,               \* the pointer over the calendar and the hover colours of
                           \* the day cells; None while they are not followed
    selections,            \* the selection of the orders tree and of the lists of
                           \* the days; None while it is not followed
    anchors,               \* the anchors and the focus of the tree and of the lists,
                           \* and what the last press kept of them; None while
                           \* they are not followed
    workers,               \* the worker threads started and not yet done, by the
                           \* operation each of them performs
    polling,               \* _poll_queue is inside its while loop
    raised,                \* number of handler runs that ended in an exception
    last                   \* the last handler run that changed the state, and
                           \* the message it handled when it was a poll

vars == <<calendar_notes, calendar_assignments, undo_stack, redo_stack,
          state_save_after_id, timers, queue, drag_data, calendar_hover,
          pointer, selections, anchors, workers, polling,
          raised, last>>

\* the state of the widgets and of the worker threads, which the handlers of
\* the store leave alone
widgets == <<pointer, selections, anchors, workers>>

-----------------------------------------------------------------------------
(* Bounds of the model.                                                    *)

\* a handler that pushes an undo entry or starts a gesture runs only while
\* the undo stack, the redo stack, the queue, the gesture in progress and
\* the handler runs that raised count fewer than MaxOps together
MaxOps == 2

\* self._undo_stack_limit and self._redo_stack_limit
undo_stack_limit == 100
redo_stack_limit == undo_stack_limit

-----------------------------------------------------------------------------
(* Generic helpers.                                                        *)

None == <<>>
Some(v) == <<v>>

Range(s) == {s[i] : i \in 1..Len(s)}

\* d[k] = v on a dict
DictSet(d, k, v) == [x \in DOMAIN d \cup {k} |-> IF x = k THEN v ELSE d[x]]
\* d.pop(k, None)
DictPop(d, k) == [x \in DOMAIN d \ {k} |-> d[x]]
\* d.get(k, default)
DictGet(d, k, default) == IF k \in DOMAIN d THEN d[k] ELSE default
EmptyDict == [x \in {} |-> <<>>]

\* list.pop(i) for every position in the set idxs (positions are 1-based)
RECURSIVE RemovePositions(_, _)
RemovePositions(s, idxs) ==
    IF s = <<>> THEN <<>>
    ELSE LET n == Len(s)
             front == RemovePositions(SubSeq(s, 1, n - 1), idxs)
         IN IF n \in idxs THEN front ELSE Append(front, s[n])

\* all strictly increasing sequences over the positions 1..n
RECURSIVE IncreasingSeqs(_)
IncreasingSeqs(n) ==
    IF n = 0 THEN {<<>>}
    ELSE IncreasingSeqs(n - 1) \cup {Append(s, n) : s \in IncreasingSeqs(n - 1)}

-----------------------------------------------------------------------------
(* Date keys and their canonical string form.                              *)

Digits == <<"0", "1", "2", "3", "4", "5", "6", "7", "8", "9">>
IsDigit(c) == \E i \in 1..10 : Digits[i] = c
DigitValue(c) == (CHOOSE i \in 1..10 : Digits[i] = c) - 1

\* str.split("-") on a sequence of characters
RECURSIVE SplitDash(_, _, _)
SplitDash(s, i, cur) ==
    IF i > Len(s) THEN <<cur>>
    ELSE IF s[i] = "-" THEN <<cur>> \o SplitDash(s, i + 1, <<>>)
    ELSE SplitDash(s, i + 1, Append(cur, s[i]))

\* int(part) succeeds: a non-empty run of decimal digits
ParsesAsInt(part) == Len(part) > 0 /\ \A i \in 1..Len(part) : IsDigit(part[i])

RECURSIVE IntOf(_)
IntOf(part) ==
    IF part = <<>> THEN 0
    ELSE 10 * IntOf(SubSeq(part, 1, Len(part) - 1)) + DigitValue(part[Len(part)])

\* YBSApp._deserialize_date_key: None, or the (year, month, day) triple
deserialize_date_key(key) ==
    LET parts == SplitDash(key, 1, <<>>)
    IN IF Len(parts) # 3 THEN None
       ELSE IF \E i \in 1..3 : ~ParsesAsInt(parts[i]) THEN None
       ELSE Some(<<IntOf(parts[1]), IntOf(parts[2]), IntOf(parts[3])>>)

\* YBSApp._normalize_date_key on a triple of integers
normalize_date_key(date_key) ==
    IF Len(date_key) = 3 THEN Some(<<date_key[1], date_key[2], date_key[3]>>)
    ELSE None

\* the day cells of the rendered month, self._day_cells
day_cells == {<<2024, 3, 15>>, <<2024, 3, 16>>}

-----------------------------------------------------------------------------
(* Orders.                                                                 *)

\* YBSApp._normalize_assignment on a sequence of strings
normalize_assignment(values) ==
    <<IF Len(values) > 0 THEN values[1] ELSE "",
      IF Len(values) > 1 THEN values[2] ELSE "">>

\* the rows of the unassigned orders tree, self._all_orders
all_orders == <<<<"100", "Acme">>, <<"200", "Bolt">>>>

-----------------------------------------------------------------------------
(* The persisted state file and YBSApp._load_state.                        *)
(* A file is None (missing or malformed JSON) or a JSON object with the    *)
(* members "notes" and "assignments", each a sequence of <<key, value>>    *)
(* in file order.  A JSON value is tagged with its type: "str", "list"     *)
(* (of JSON values) or "num".                                              *)

JStr(v) == [t |-> "str", v |-> v]
JList(v) == [t |-> "list", v |-> v]
JNum == [t |-> "num", v |-> <<>>]

\* str(entry[i]) of a JSON value inside an assignment entry
EntryStr(j) == IF j.t = "str" THEN j.v ELSE "7"

\* gui.py 637-643: the normalised entries of one day's raw list
RECURSIVE load_entries(_)
load_entries(value) ==
    IF value = <<>> THEN <<>>
    ELSE LET entry == value[Len(value)]
             front == load_entries(SubSeq(value, 1, Len(value) - 1))
         IN IF entry.t = "list"
            THEN Append(front,
                        <<IF Len(entry.v) > 0 THEN EntryStr(entry.v[1]) ELSE "",
                          IF Len(entry.v) > 1 THEN EntryStr(entry.v[2]) ELSE "">>)
            ELSE IF entry.t = "str" THEN Append(front, <<entry.v, "">>)
            ELSE front

\* gui.py 623-627: the notes dict built from the raw members, in file order
RECURSIVE load_notes(_)
load_notes(raw) ==
    IF raw = <<>> THEN EmptyDict
    ELSE LET front == load_notes(SubSeq(raw, 1, Len(raw) - 1))
             item == raw[Len(raw)]
             date_key == deserialize_date_key(item[1])
         IN IF date_key = None \/ item[2].t # "str" THEN front
            ELSE DictSet(front, date_key[1], item[2].v)

\* gui.py 631-646: the assignments dict built from the raw members
RECURSIVE load_assignments(_)
load_assignments(raw) ==
    IF raw = <<>> THEN EmptyDict
    ELSE LET front == load_assignments(SubSeq(raw, 1, Len(raw) - 1))
             item == raw[Len(raw)]
             date_key == deserialize_date_key(item[1])
         IN IF date_key = None \/ item[2].t # "list" THEN front
            ELSE LET normalized_assignments == load_entries(item[2].v)
                 IN IF normalized_assignments # <<>>
                    THEN DictSet(front, date_key[1], normalized_assignments)
                    ELSE front

\* a file whose bytes are not UTF-8: read() inside json.load raises
\* UnicodeDecodeError, which is neither an OSError nor a JSONDecodeError,
\* so the except clauses of gui.py 615-618 let it leave _load_state
Undecodable == Some([bytes |-> "not UTF-8"])

\* _load_state, and with it YBSApp.__init__, ends in an exception
load_raises(data) == data # None /\ "bytes" \in DOMAIN data[1]

\* YBSApp._load_state: the store read from a file
load_state(data) ==
    IF data = None THEN [notes |-> EmptyDict, assignments |-> EmptyDict]
    ELSE [notes |-> load_notes(data[1].notes),
          assignments |-> load_assignments(data[1].assignments)]

\* file keys
K15 == <<"2", "0", "2", "4", "-", "0", "3", "-", "1", "5">>
K16 == <<"2", "0", "2", "4", "-", "0", "3", "-", "1", "6">>
K16short == <<"2", "0", "2", "4", "-", "3", "-", "1", "6">>
KApril == <<"2", "0", "2", "4", "-", "0", "4", "-", "0", "1">>
KBad == <<"2", "0", "2", "4", "-", "x", "3", "-", "1", "5">>
KTwoParts == <<"2", "0", "2", "4", "-", "0", "3">>

Acme == JList(<<JStr("100"), JStr("Acme")>>)
Bolt == JList(<<JStr("200"), JStr("Bolt")>>)

\* a file written by the application itself
WrittenFile ==
    Some([notes |-> << <<K15, JStr(<<"a">>)>> >>,
          assignments |-> << <<K15, JList(<<Acme, Bolt>>)>>,
                             <<K16, JList(<<Acme>>)>> >>])

\* the files the application may find at STATE_PATH when it starts
StateFiles ==
    { None, Undecodable, WrittenFile,
      \* a file edited by hand: a repeated entry, an empty note, an empty
      \* list, unparsable keys, short entries and a day of another month
      Some([notes |-> << <<K16short, JStr(<<>>)>>, <<KBad, JStr(<<"a">>)>>,
                         <<K15, JNum>> >>,
            assignments |-> << <<K15, JList(<<Acme, Acme>>)>>,
                               <<K16, JList(<<>>)>>,
                               <<KTwoParts, JList(<<Acme>>)>>,
                               <<KApril, JList(<<JList(<<JStr("300")>>),
                                                 JStr("400"), JNum,
                                                 JList(<<JNum, JStr("Num")>>)>>)>> >>]) }

-----------------------------------------------------------------------------
(* YBSApp._save_state: the file written from the store.                    *)

\* the decimal digits of a natural number
RECURSIVE DecimalDigits(_)
DecimalDigits(n) ==
    IF n < 10 THEN <<Digits[n + 1]>>
    ELSE Append(DecimalDigits(n \div 10), Digits[(n % 10) + 1])

\* the 0-fill of the format specs 04d and 02d
RECURSIVE ZeroPad(_, _)
ZeroPad(digits, width) ==
    IF Len(digits) >= width THEN digits ELSE ZeroPad(<<"0">> \o digits, width)

\* a key whose month and day changed places
serialize_date_key_day_first(date_key) ==
    ZeroPad(DecimalDigits(date_key[1]), 4) \o <<"-">>
        \o ZeroPad(DecimalDigits(date_key[3]), 2) \o <<"-">>
        \o ZeroPad(DecimalDigits(date_key[2]), 2)

\* YBSApp._serialize_date_key on a triple of naturals: YYYY-MM-DD
serialize_date_key(date_key) ==
    ZeroPad(DecimalDigits(date_key[1]), 4) \o <<"-">>
        \o ZeroPad(DecimalDigits(date_key[2]), 2) \o <<"-">>
        \o ZeroPad(DecimalDigits(date_key[3]), 2)

\* the keys of a dict as a sequence.  A dict iterates in insertion order,
\* which a function does not keep; the order chosen here is arbitrary.
RECURSIVE KeysOf(_)
KeysOf(keys) ==
    IF keys = {} THEN <<>>
    ELSE LET k == CHOOSE x \in keys : TRUE
         IN <<k>> \o KeysOf(keys \ {k})

\* gui.py 654-661: the members of the two JSON objects
save_notes(notes) ==
    LET keys == KeysOf(DOMAIN notes)
    IN [i \in 1..Len(keys) |-> <<serialize_date_key(keys[i]), JStr(notes[keys[i]])>>]

save_assignments(assignments) ==
    LET keys == KeysOf(DOMAIN assignments)
        items(value) == [j \in 1..Len(value) |->
                            JList(<<JStr(value[j][1]), JStr(value[j][2])>>)]
    IN [i \in 1..Len(keys) |->
           <<serialize_date_key(keys[i]), JList(items(assignments[keys[i]]))>>]

\* YBSApp._save_state: the file json.dump writes
save_state(notes, assignments) ==
    Some([notes |-> save_notes(notes), assignments |-> save_assignments(assignments)])

-----------------------------------------------------------------------------
(* The state the handlers work on, as one record.                          *)

State == [notes |-> calendar_notes, assignments |-> calendar_assignments,
          undo |-> undo_stack, redo |-> redo_stack,
          save |-> state_save_after_id, timers |-> timers]

\* a _schedule_state_save that cancels the pending timer and starts none
schedule_state_save_cancels(s) ==
    [s EXCEPT !.save = FALSE,
              !.timers = IF s.save THEN s.timers - 1 ELSE s.timers]

\* a _schedule_state_save that starts a timer and cancels none
schedule_state_save_no_cancel(s) ==
    [s EXCEPT !.save = TRUE, !.timers = s.timers + 1]

\* YBSApp._schedule_state_save: cancels the timer whose id is recorded and
\* starts a new one
schedule_state_save(s) ==
    [s EXCEPT !.save = TRUE,
              !.timers = (IF s.save THEN s.timers - 1 ELSE s.timers) + 1]

\* the (str(entry[0]), str(entry[1])) copy made of every snapshot entry
CopyEntries(list) == [i \in 1..Len(list) |-> normalize_assignment(list[i])]

\* YBSApp._capture_assignments_state
capture_assignments_state(assignments, date_key) ==
    IF date_key \notin DOMAIN assignments
    THEN [had_key |-> FALSE, previous |-> None]
    ELSE [had_key |-> TRUE, previous |-> Some(CopyEntries(assignments[date_key]))]

\* YBSApp._capture_notes_state
capture_notes_state(notes, date_key) ==
    IF date_key \in DOMAIN notes
    THEN [had_key |-> TRUE, previous |-> Some(notes[date_key])]
    ELSE [had_key |-> FALSE, previous |-> None]

\* YBSApp._normalize_history_action: None when the action is discarded
normalize_history_action(action) ==
    IF action.kind = "assignments"
    THEN LET keys == {k \in DOMAIN action.dates : normalize_date_key(k) # None}
         IN IF keys = {} THEN None
            ELSE Some([kind |-> "assignments",
                       dates |-> [k \in keys |->
                           [had_key |-> action.dates[k].had_key,
                            previous |->
                                IF action.dates[k].previous = None THEN None
                                ELSE Some(CopyEntries(action.dates[k].previous[1]))]]])
    ELSE IF action.kind = "notes"
    THEN IF normalize_date_key(action.date_key) = None THEN None
         ELSE Some([kind |-> "notes",
                    date_key |-> normalize_date_key(action.date_key)[1],
                    had_key |-> action.had_key,
                    previous |-> action.previous])
    ELSE None

\* a trim that discards the newest entries
Trim_keeps_oldest(stack, limit) ==
    IF limit > 0 /\ Len(stack) > limit THEN SubSeq(stack, 1, limit) ELSE stack

\* the del stack[: len(stack) - limit] of both push methods
Trim(stack, limit) ==
    IF limit > 0 /\ Len(stack) > limit
    THEN SubSeq(stack, Len(stack) - limit + 1, Len(stack))
    ELSE stack

\* a push that never clears the redo stack
push_undo_action_keeps_redo(s, action, clear_redo) ==
    LET normalized_action == normalize_history_action(action)
    IN IF normalized_action = None THEN s
       ELSE [s EXCEPT !.undo = Trim(Append(s.undo, normalized_action[1]),
                                    undo_stack_limit)]

\* YBSApp._push_undo_action
push_undo_action(s, action, clear_redo) ==
    LET normalized_action == normalize_history_action(action)
    IN IF normalized_action = None THEN s
       ELSE [s EXCEPT !.undo = Trim(Append(s.undo, normalized_action[1]),
                                    undo_stack_limit),
                      !.redo = IF clear_redo THEN <<>> ELSE s.redo]

\* YBSApp._push_redo_action
push_redo_action(s, action) ==
    LET normalized_action == normalize_history_action(action)
    IN IF normalized_action = None THEN s
       ELSE [s EXCEPT !.redo = Trim(Append(s.redo, normalized_action[1]),
                                    redo_stack_limit)]

\* gui.py 836-853 and 971-988: every day of the action is replaced by its
\* recorded list, or loses its key when that list is empty or None.  Each
\* iteration reads and writes its own key only, so the loop is a map.
restore_assignments(assignments, dates) ==
    LET keys == {k \in DOMAIN dates : normalize_date_key(k) # None}
        restored(k) == IF dates[k].previous = None THEN <<>>
                       ELSE CopyEntries(dates[k].previous[1])
        kept == {k \in keys : restored(k) # <<>>}
    IN [k \in (DOMAIN assignments \ keys) \cup kept |->
            IF k \in kept THEN restored(k) ELSE assignments[k]]

\* gui.py 886-900 and 1026-1040: the note of the action's day is restored
restore_notes(notes, action) ==
    IF action.previous # None
    THEN DictSet(notes, action.date_key, action.previous[1])
    ELSE DictPop(notes, action.date_key)

\* the snapshot of the days of an action, taken before they are restored
capture_dates(assignments, dates) ==
    [k \in {x \in DOMAIN dates : normalize_date_key(x) # None} |->
        capture_assignments_state(assignments, k)]

\* an undo that puts the entry it undoes on the redo stack, in place of a
\* snapshot of the state it replaces
undo_last_action_reuses_entry(s) ==
    IF s.undo = <<>> THEN s ELSE
    LET action == s.undo[Len(s.undo)]
        popped == [s EXCEPT !.undo = SubSeq(s.undo, 1, Len(s.undo) - 1)]
        pushed == push_redo_action(popped, action)
    IN schedule_state_save(
           IF action.kind = "assignments"
           THEN [pushed EXCEPT !.assignments =
                    restore_assignments(s.assignments, action.dates)]
           ELSE [pushed EXCEPT !.notes = restore_notes(s.notes, action)])

\* YBSApp._undo_last_action, for an event outside a notes widget
undo_last_action(s) ==
    IF s.undo = <<>> THEN s ELSE
    LET action == s.undo[Len(s.undo)]
        popped == [s EXCEPT !.undo = SubSeq(s.undo, 1, Len(s.undo) - 1)]
    IN IF action.kind = "assignments"
       THEN LET redo_dates == capture_dates(s.assignments, action.dates)
                restored == [popped EXCEPT !.assignments =
                                restore_assignments(s.assignments, action.dates)]
                pushed == IF DOMAIN redo_dates # {}
                          THEN push_redo_action(restored,
                                   [kind |-> "assignments", dates |-> redo_dates])
                          ELSE restored
            IN IF DOMAIN redo_dates # {} THEN schedule_state_save(pushed) ELSE pushed
       ELSE LET redo_snapshot == capture_notes_state(s.notes, action.date_key)
                pushed == push_redo_action(popped,
                              [kind |-> "notes", date_key |-> action.date_key,
                               had_key |-> redo_snapshot.had_key,
                               previous |-> redo_snapshot.previous])
            IN schedule_state_save(
                   [pushed EXCEPT !.notes = restore_notes(s.notes, action)])

\* a redo that schedules a save even when there is nothing to redo
redo_last_action_saves_when_empty(s) ==
    IF s.redo = <<>> THEN schedule_state_save(s) ELSE
    LET action == s.redo[Len(s.redo)]
        popped == [s EXCEPT !.redo = SubSeq(s.redo, 1, Len(s.redo) - 1)]
    IN IF action.kind = "assignments"
       THEN LET undo_entries == capture_dates(s.assignments, action.dates)
                restored == [popped EXCEPT !.assignments =
                                restore_assignments(s.assignments, action.dates)]
                pushed == IF DOMAIN undo_entries # {}
                          THEN push_undo_action(restored,
                                   [kind |-> "assignments", dates |-> undo_entries],
                                   FALSE)
                          ELSE restored
            IN IF DOMAIN undo_entries # {} THEN schedule_state_save(pushed) ELSE pushed
       ELSE LET undo_snapshot == capture_notes_state(s.notes, action.date_key)
                pushed == push_undo_action(popped,
                              [kind |-> "notes", date_key |-> action.date_key,
                               had_key |-> undo_snapshot.had_key,
                               previous |-> undo_snapshot.previous], FALSE)
            IN schedule_state_save(
                   [pushed EXCEPT !.notes = restore_notes(s.notes, action)])

\* a redo that pushes its undo entry as a new operation does, clearing the
\* redo stack
redo_last_action_clears_redo(s) ==
    IF s.redo = <<>> THEN s ELSE
    LET action == s.redo[Len(s.redo)]
        popped == [s EXCEPT !.redo = SubSeq(s.redo, 1, Len(s.redo) - 1)]
    IN IF action.kind = "assignments"
       THEN LET undo_entries == capture_dates(s.assignments, action.dates)
                restored == [popped EXCEPT !.assignments =
                                restore_assignments(s.assignments, action.dates)]
                pushed == IF DOMAIN undo_entries # {}
                          THEN push_undo_action(restored,
                                   [kind |-> "assignments", dates |-> undo_entries],
                                   TRUE)
                          ELSE restored
            IN IF DOMAIN undo_entries # {} THEN schedule_state_save(pushed) ELSE pushed
       ELSE LET undo_snapshot == capture_notes_state(s.notes, action.date_key)
                pushed == push_undo_action(popped,
                              [kind |-> "notes", date_key |-> action.date_key,
                               had_key |-> undo_snapshot.had_key,
                               previous |-> undo_snapshot.previous], TRUE)
            IN schedule_state_save(
                   [pushed EXCEPT !.notes = restore_notes(s.notes, action)])

\* YBSApp._redo_last_action, for an event outside a notes widget
redo_last_action(s) ==
    IF s.redo = <<>> THEN s ELSE
    LET action == s.redo[Len(s.redo)]
        popped == [s EXCEPT !.redo = SubSeq(s.redo, 1, Len(s.redo) - 1)]
    IN IF action.kind = "assignments"
       THEN LET undo_entries == capture_dates(s.assignments, action.dates)
                restored == [popped EXCEPT !.assignments =
                                restore_assignments(s.assignments, action.dates)]
                pushed == IF DOMAIN undo_entries # {}
                          THEN push_undo_action(restored,
                                   [kind |-> "assignments", dates |-> undo_entries],
                                   FALSE)
                          ELSE restored
            IN IF DOMAIN undo_entries # {} THEN schedule_state_save(pushed) ELSE pushed
       ELSE LET undo_snapshot == capture_notes_state(s.notes, action.date_key)
                pushed == push_undo_action(popped,
                              [kind |-> "notes", date_key |-> action.date_key,
                               had_key |-> undo_snapshot.had_key,
                               previous |-> undo_snapshot.previous], FALSE)
            IN schedule_state_save(
                   [pushed EXCEPT !.notes = restore_notes(s.notes, action)])

-----------------------------------------------------------------------------
(* Notes, delete and clear.                                                *)

\* bool(new_text.strip()): some character is not white space
has_text(text) == \E i \in 1..Len(text) : text[i] # " "

\* YBSApp._save_day_notes with new_text in the day's notes widget
save_day_notes(s, date_key, new_text) ==
    LET existing_text == IF date_key \in DOMAIN s.notes
                         THEN Some(s.notes[date_key]) ELSE None
        unchanged == IF has_text(new_text)
                     THEN existing_text = Some(new_text)
                     ELSE existing_text = None
        snapshot == capture_notes_state(s.notes, date_key)
        pushed == push_undo_action(s,
                      [kind |-> "notes", date_key |-> date_key,
                       previous |-> snapshot.previous,
                       had_key |-> snapshot.had_key], TRUE)
    IN IF date_key \notin day_cells \/ unchanged THEN s
       ELSE schedule_state_save(
                [pushed EXCEPT !.notes =
                    IF has_text(new_text) THEN DictSet(s.notes, date_key, new_text)
                    ELSE DictPop(s.notes, date_key)])

\* a delete that leaves the key of a day it has emptied
on_day_order_delete_keeps_key(s, date_key, selection) ==
    LET assignments == DictGet(s.assignments, date_key, <<>>)
        valid_indices == {i \in selection : 0 <= i /\ i < Len(assignments)}
        snapshot == capture_assignments_state(s.assignments, date_key)
        pushed == push_undo_action(s,
                      [kind |-> "assignments",
                       dates |-> [k \in {date_key} |-> snapshot]], TRUE)
        remaining == RemovePositions(assignments, {i + 1 : i \in valid_indices})
    IN IF date_key \notin day_cells \/ assignments = <<>> \/ valid_indices = {}
       THEN s
       ELSE schedule_state_save(
                [pushed EXCEPT !.assignments =
                    DictSet(s.assignments, date_key, remaining)])

\* YBSApp._on_day_order_delete with the listbox selection `selection`
\* (0-based indices)
on_day_order_delete(s, date_key, selection) ==
    LET assignments == DictGet(s.assignments, date_key, <<>>)
        valid_indices == {i \in selection : 0 <= i /\ i < Len(assignments)}
        snapshot == capture_assignments_state(s.assignments, date_key)
        pushed == push_undo_action(s,
                      [kind |-> "assignments",
                       dates |-> [k \in {date_key} |-> snapshot]], TRUE)
        remaining == RemovePositions(assignments, {i + 1 : i \in valid_indices})
    IN IF date_key \notin day_cells \/ assignments = <<>> \/ valid_indices = {}
       THEN s
       ELSE schedule_state_save(
                [pushed EXCEPT !.assignments =
                    IF remaining # <<>>
                    THEN DictSet(s.assignments, date_key, remaining)
                    ELSE DictPop(s.assignments, date_key)])

\* a clear whose undo entry is the snapshot taken after the day was cleared
on_day_clear_request_late_snapshot(s, date_key) ==
    LET assignments == DictGet(s.assignments, date_key, <<>>)
        cleared == DictPop(s.assignments, date_key)
        snapshot == capture_assignments_state(cleared, date_key)
        pushed == push_undo_action(s,
                      [kind |-> "assignments",
                       dates |-> [k \in {date_key} |-> snapshot]], TRUE)
    IN IF assignments = <<>> THEN s
       ELSE schedule_state_save([pushed EXCEPT !.assignments = cleared])

\* YBSApp._on_day_clear_request for a day
on_day_clear_request(s, date_key) ==
    LET assignments == DictGet(s.assignments, date_key, <<>>)
        snapshot == capture_assignments_state(s.assignments, date_key)
        pushed == push_undo_action(s,
                      [kind |-> "assignments",
                       dates |-> [k \in {date_key} |-> snapshot]], TRUE)
    IN IF assignments = <<>> THEN s
       ELSE schedule_state_save(
                [pushed EXCEPT !.assignments = DictPop(s.assignments, date_key)])

\* YBSApp._assign_order_to_day with push_undo at its default; `returned` is
\* the method's result
assign_order_to_day(s, date_key, order_values) ==
    LET normalized == normalize_assignment(order_values)
        snapshot == capture_assignments_state(s.assignments, date_key)
        \* setdefault(date_key, [])
        defaulted == IF date_key \in DOMAIN s.assignments THEN s.assignments
                     ELSE DictSet(s.assignments, date_key, <<>>)
        pushed == push_undo_action([s EXCEPT !.assignments = defaulted],
                      [kind |-> "assignments",
                       dates |-> [k \in {date_key} |-> snapshot]], TRUE)
    IN IF normalized \in Range(defaulted[date_key])
       THEN [state |-> [s EXCEPT !.assignments = defaulted], returned |-> FALSE]
       ELSE [state |-> schedule_state_save(
                           [pushed EXCEPT !.assignments =
                               DictSet(defaulted, date_key,
                                       Append(defaulted[date_key], normalized))]),
             returned |-> TRUE]

-----------------------------------------------------------------------------
(* The gesture: press, drag, release.                                      *)

\* YBSApp._reset_drag_state
reset_drag_state ==
    [items |-> <<>>, values |-> <<>>, widget |-> FALSE, active |-> FALSE,
     source |-> "none", source_date_key |-> None, source_indices |-> <<>>,
     source_assignments |-> <<>>]

\* the values of a list at the 0-based indices of a selection, in order
ValuesAt(list, selection) ==
    [i \in 1..Len(selection) |-> normalize_assignment(list[selection[i] + 1])]

\* YBSApp._on_order_press: `selection` is the tree selection the press
\* leaves, as increasing 0-based row indices (empty: press below the rows)
on_order_press(selection) ==
    [items |-> selection, values |-> ValuesAt(all_orders, selection),
     widget |-> FALSE, active |-> FALSE, source |-> "tree",
     source_date_key |-> None,
     source_indices |-> <<>>,
     source_assignments |-> ValuesAt(all_orders, selection)]

\* YBSApp._on_day_order_press: `selection` is the listbox selection the
\* press leaves, as increasing 0-based indices
on_day_order_press(assignments_map, date_key, selection) ==
    LET assignments == DictGet(assignments_map, date_key, <<>>)
        selected_indices == IF assignments = <<>> THEN <<>> ELSE selection
        values == [i \in 1..Len(selected_indices) |->
                      normalize_assignment(assignments[selected_indices[i] + 1])]
    IN [items |-> selected_indices, values |-> values, widget |-> FALSE,
        active |-> FALSE,
        source |-> "calendar", source_date_key |-> Some(date_key),
        source_indices |-> selected_indices, source_assignments |-> values]

\* YBSApp._begin_drag, called by both drag handlers once the pointer has
\* moved DRAG_THRESHOLD pixels from the press point
begin_drag(d) ==
    IF d.items = <<>> THEN d
    ELSE [d EXCEPT !.values = [i \in 1..Len(d.values) |->
                                  normalize_assignment(d.values[i])],
                   !.widget = TRUE, !.active = TRUE]

\* the message a release puts on the queue; target is None when no day cell
\* lies under the pointer
DropFailure(text) ==
    [type |-> "calendar_drop", success |-> FALSE, message |-> text,
     payload |-> None]

\* gui.py 2743-2792: the message of YBSApp._on_order_release
order_release_message(d, target) ==
    IF target = None
    THEN DropFailure("Please drop orders onto a valid calendar day.")
    ELSE IF d.values = <<>>
    THEN DropFailure("Unable to determine which order was dragged.")
    ELSE [type |-> "calendar_drop", success |-> TRUE, message |-> "Assigned",
          payload |-> Some([date_key |-> target[1],
                            orders |-> [i \in 1..Len(d.values) |->
                                           normalize_assignment(d.values[i])],
                            source_kind |-> "tree",
                            source_date_key |-> None,
                            source_indices |-> <<>>,
                            source_orders |-> <<>>])]

\* gui.py 3084-3174: the message of YBSApp._on_day_order_release
day_order_release_message(d, target) ==
    IF target = None
    THEN DropFailure("Please drop orders onto a valid calendar day.")
    ELSE IF d.values = <<>>
    THEN DropFailure("Unable to determine which order was dragged.")
    ELSE [type |-> "calendar_drop", success |-> TRUE,
          message |-> IF d.source_date_key = target
                      THEN "remains scheduled" ELSE "Moved",
          payload |-> Some([date_key |-> target[1],
                            orders |-> [i \in 1..Len(d.values) |->
                                           normalize_assignment(d.values[i])],
                            source_kind |-> "calendar",
                            source_date_key |-> d.source_date_key,
                            source_indices |-> d.source_indices,
                            source_orders |->
                                [i \in 1..Len(d.source_assignments) |->
                                    normalize_assignment(d.source_assignments[i])]])]

\* an _end_drag that resets the drag data and leaves the highlight of the
\* day under the pointer
end_drag_keeps_hover(hover) == [drag |-> reset_drag_state, hover |-> hover]

\* YBSApp._end_drag: destroys the floating indicator, removes the highlight
\* of the hovered day and resets the drag data
end_drag(hover) == [drag |-> reset_drag_state, hover |-> None]

\* gui.py 2662-2701, 3023-3051: YBSApp._on_order_drag and
\* YBSApp._on_day_order_drag; past_threshold: the pointer is DRAG_THRESHOLD
\* pixels or more from the press point; target: what lies under the pointer
on_drag(d, hover, past_threshold, target) ==
    IF d.items = <<>> THEN [drag |-> d, hover |-> hover]
    ELSE [drag |-> IF ~d.active /\ past_threshold THEN begin_drag(d) ELSE d,
          hover |-> target]

\* a release handler that queues the drop of a gesture that never became a
\* drag
on_order_release_queues_pressed(d, hover, target) ==
    [message |-> IF d.items = <<>> THEN None
                 ELSE Some(order_release_message(d, target)),
     drag |-> end_drag(hover).drag,
     hover |-> end_drag(hover).hover]

\* YBSApp._on_order_release: the message it queues, None when it queues none
on_order_release(d, hover, target) ==
    [message |-> IF d.items = <<>> \/ ~d.active THEN None
                 ELSE Some(order_release_message(d, target)),
     drag |-> end_drag(hover).drag,
     hover |-> end_drag(hover).hover]

\* YBSApp._on_day_order_release of the list of the day date_key
on_day_order_release(d, hover, date_key, target) ==
    [message |-> IF \/ d.source # "calendar"
                    \/ d.source_date_key # Some(date_key)
                    \/ d.items = <<>>
                    \/ ~d.active
                 THEN None
                 ELSE Some(day_order_release_message(d, target)),
     drag |-> end_drag(hover).drag,
     hover |-> end_drag(hover).hover]

-----------------------------------------------------------------------------
(* The hover colours of the day cells.                                     *)

\* `pointer`, while it is followed, is a record: over is the day cell whose
\* frame the pointer has entered and not left (None outside the cells),
\* hover is self._day_cell_pointer_hover, highlighted is the set of the day
\* cells whose frame carries the colour DAY_CELL_HOVER_VALID
NoPointerHover == [over |-> None, hover |-> None, highlighted |-> {}]

\* YBSApp._apply_day_cell_pointer_hover for a pointer known to be over the
\* cell; active: self._drag_data["active"], hover: self._calendar_hover
apply_day_cell_pointer_hover(p, date_key, active, hover) ==
    IF active \/ hover = Some(date_key) THEN p
    ELSE [p EXCEPT !.highlighted = @ \cup {date_key}, !.hover = Some(date_key)]

\* YBSApp._apply_day_cell_base_style: the frame gets its base colours, and
\* the pointer hover again when the pointer rests on the cell outside a drag
apply_day_cell_base_style(p, date_key, active, hover, is_over) ==
    LET q == [p EXCEPT !.highlighted = @ \ {date_key}]
    IN IF /\ q.hover = Some(date_key)
          /\ ~active
          /\ hover # Some(date_key)
          /\ is_over
       THEN apply_day_cell_pointer_hover(q, date_key, active, hover)
       ELSE q

\* YBSApp._on_day_cell_pointer_enter
on_day_cell_pointer_enter(p, date_key, active, hover) ==
    IF active THEN p ELSE apply_day_cell_pointer_hover(p, date_key, active, hover)

\* YBSApp._on_day_cell_pointer_leave for a pointer that left the cell
on_day_cell_pointer_leave(p, date_key, active, hover) ==
    LET q == IF p.hover = Some(date_key) THEN [p EXCEPT !.hover = None] ELSE p
    IN IF hover = Some(date_key) /\ active THEN q
       ELSE apply_day_cell_base_style(q, date_key, active, hover, FALSE)

\* YBSApp._remove_calendar_hover: the base style of the day self._calendar_hover
\* names, applied while it still names the day
remove_calendar_hover(p, active, hover) ==
    IF hover = None THEN p
    ELSE apply_day_cell_base_style(p, hover[1], active, hover, TRUE)

\* YBSApp._apply_calendar_hover of a valid day
apply_calendar_hover(p, active, hover, date_key) ==
    IF hover = Some(date_key) THEN p
    ELSE [remove_calendar_hover(p, active, hover)
              EXCEPT !.highlighted = @ \cup {date_key}]

\* YBSApp._update_calendar_hover; target is None when no day cell lies
\* under the pointer
update_calendar_hover(p, active, hover, target) ==
    IF target = None THEN remove_calendar_hover(p, active, hover)
    ELSE apply_calendar_hover(p, active, hover, target[1])

-----------------------------------------------------------------------------
(* The drop handler.                                                       *)

Min(S) == CHOOSE x \in S : \A y \in S : x <= y

\* a search that takes the first position holding an equal value and does
\* not look at the index captured at the press
RECURSIVE find_removals_first_match(_, _, _, _, _)
find_removals_first_match(assignments_list, source_orders, index_hints, position, removed) ==
    IF position > Len(source_orders) THEN removed
    ELSE LET order == source_orders[position]
             candidates ==
                 {idx \in 0..(Len(assignments_list) - 1) :
                     /\ idx \notin Range(removed)
                     /\ normalize_assignment(assignments_list[idx + 1]) = order}
         IN find_removals_first_match(assignments_list, source_orders, index_hints,
                                      position + 1,
                                      IF candidates = {} THEN removed
                                      ELSE Append(removed, Min(candidates)))

\* gui.py 3545-3564: removed_indices (0-based, in payload order) for the
\* source orders from `position` on; used_indices is the set of `removed`
RECURSIVE find_removals(_, _, _, _, _)
find_removals(assignments_list, source_orders, index_hints, position, removed) ==
    IF position > Len(source_orders) THEN removed
    ELSE LET order == source_orders[position]
             used_indices == Range(removed)
             index_hint == IF position <= Len(index_hints)
                           THEN Some(index_hints[position]) ELSE None
             hint_matches ==
                 /\ index_hint # None
                 /\ 0 <= index_hint[1] /\ index_hint[1] < Len(assignments_list)
                 /\ index_hint[1] \notin used_indices
                 /\ normalize_assignment(assignments_list[index_hint[1] + 1]) = order
             candidates ==
                 {idx \in 0..(Len(assignments_list) - 1) :
                     /\ idx \notin used_indices
                     /\ normalize_assignment(assignments_list[idx + 1]) = order}
             removal_index == IF hint_matches THEN Some(index_hint[1])
                              ELSE IF candidates # {} THEN Some(Min(candidates))
                              ELSE None
         IN find_removals(assignments_list, source_orders, index_hints,
                          position + 1,
                          IF removal_index = None THEN removed
                          ELSE Append(removed, removal_index[1]))

\* list.index(order), 0-based
IndexOf(list, order) == Min({i \in 1..Len(list) : list[i] = order}) - 1

\* an append that does not look for the order in the target list
RECURSIVE append_orders_unchecked(_, _)
append_orders_unchecked(target_assignments, orders) ==
    IF orders = <<>>
    THEN [list |-> target_assignments, indices |-> <<>>, added |-> FALSE]
    ELSE LET front == append_orders_unchecked(target_assignments,
                                              SubSeq(orders, 1, Len(orders) - 1))
         IN [list |-> Append(front.list, orders[Len(orders)]),
             indices |-> Append(front.indices, Len(front.list)),
             added |-> TRUE]

\* a loop that puts the new orders in front of the list
RECURSIVE append_orders_at_front(_, _)
append_orders_at_front(target_assignments, orders) ==
    IF orders = <<>>
    THEN [list |-> target_assignments, indices |-> <<>>, added |-> FALSE]
    ELSE LET front == append_orders_at_front(target_assignments,
                                             SubSeq(orders, 1, Len(orders) - 1))
             order == orders[Len(orders)]
         IN IF order \in Range(front.list)
            THEN [list |-> front.list,
                  indices |-> Append(front.indices, IndexOf(front.list, order)),
                  added |-> front.added]
            ELSE [list |-> <<order>> \o front.list,
                  indices |-> Append(front.indices, 0),
                  added |-> TRUE]

\* gui.py 3577-3586: the target list after the payload orders were appended,
\* the 0-based index each of them has in it, and added_to_target
RECURSIVE append_orders(_, _)
append_orders(target_assignments, orders) ==
    IF orders = <<>>
    THEN [list |-> target_assignments, indices |-> <<>>, added |-> FALSE]
    ELSE LET front == append_orders(target_assignments,
                                    SubSeq(orders, 1, Len(orders) - 1))
             order == orders[Len(orders)]
         IN IF order \in Range(front.list)
            THEN [list |-> front.list,
                  indices |-> Append(front.indices, IndexOf(front.list, order)),
                  added |-> front.added]
            ELSE [list |-> Append(front.list, order),
                  indices |-> Append(front.indices, Len(front.list)),
                  added |-> TRUE]

\* gui.py 3428-3453: the handler returns before it reads the store
drop_rejected(message) ==
    \/ ~message.success
    \/ message.payload = None
    \/ message.payload[1].orders = <<>>

\* an undo entry that records the target day only
record_drop_target_only(s, normalized_key, normalized_source, target_snapshot, source_snapshot, added_to_target, removed_from_source) ==
    IF added_to_target \/ removed_from_source
    THEN schedule_state_save(
             push_undo_action(s, [kind |-> "assignments",
                                  dates |-> [k \in {normalized_key} |->
                                                target_snapshot]], TRUE))
    ELSE s

\* gui.py 3668-3683: the undo entry of a drop and the scheduled save
record_drop(s, normalized_key, normalized_source, target_snapshot, source_snapshot, added_to_target, removed_from_source) ==
    LET same_day == normalized_source = Some(normalized_key)
        target_entry == added_to_target \/ (removed_from_source /\ same_day)
        source_entry == removed_from_source /\ normalized_source # None /\ ~same_day
        keys == (IF target_entry THEN {normalized_key} ELSE {})
                \cup (IF source_entry THEN {normalized_source[1]} ELSE {})
        undo_entries == [k \in keys |->
                            IF k = normalized_key /\ target_entry
                            THEN target_snapshot ELSE source_snapshot]
        pushed == IF keys # {}
                  THEN push_undo_action(s, [kind |-> "assignments",
                                            dates |-> undo_entries], TRUE)
                  ELSE s
    IN IF added_to_target \/ removed_from_source
       THEN schedule_state_save(pushed) ELSE pushed

\* YBSApp._handle_calendar_drop.  widget_fails: an operation on a day cell
\* widget raises between the store update (3566-3586) and the undo entry
\* (3668), in _update_day_cell_display or apply_selection (3636-3666).
handle_calendar_drop(s, message, widget_fails) ==
    IF drop_rejected(message)
    THEN [state |-> s, outcome |-> "rejected", added_to_target |-> FALSE,
          removed_from_source |-> FALSE, removed_indices |-> <<>>,
          target_indices |-> <<>>]
    ELSE
    LET payload == message.payload[1]
        normalized_key == payload.date_key
        normalized_orders == [i \in 1..Len(payload.orders) |->
                                 normalize_assignment(payload.orders[i])]
        normalized_source == payload.source_date_key
        same_day == normalized_source = Some(normalized_key)
        target_snapshot == capture_assignments_state(s.assignments, normalized_key)
        source_snapshot ==
            IF normalized_source # None
            THEN capture_assignments_state(s.assignments, normalized_source[1])
            ELSE [had_key |-> FALSE, previous |-> None]
        \* setdefault(normalized_key, [])
        target_assignments == DictGet(s.assignments, normalized_key, <<>>)
        source_assignments_ref ==
            IF same_day THEN target_assignments
            ELSE IF normalized_source # None
            THEN DictGet(s.assignments, normalized_source[1], <<>>)
            ELSE <<>>
        normalized_source_orders ==
            IF payload.source_orders # <<>>
            THEN [i \in 1..Len(payload.source_orders) |->
                     normalize_assignment(payload.source_orders[i])]
            ELSE normalized_orders
        removed_indices ==
            IF normalized_source # None /\ source_assignments_ref # <<>>
            THEN find_removals(source_assignments_ref, normalized_source_orders,
                               payload.source_indices, 1, <<>>)
            ELSE <<>>
        removed_from_source == removed_indices # <<>>
        source_left == RemovePositions(source_assignments_ref,
                                       {i + 1 : i \in Range(removed_indices)})
        appended == append_orders(IF same_day THEN source_left
                                  ELSE target_assignments, normalized_orders)
        with_target == DictSet(s.assignments, normalized_key, appended.list)
        assignments_after ==
            IF removed_from_source /\ ~same_day
            THEN IF source_left # <<>>
                 THEN DictSet(with_target, normalized_source[1], source_left)
                 ELSE DictPop(with_target, normalized_source[1])
            ELSE with_target
        updated == [s EXCEPT !.assignments = assignments_after]
    IN [state |-> IF widget_fails THEN updated
                  ELSE record_drop(updated, normalized_key, normalized_source,
                                   target_snapshot, source_snapshot,
                                   appended.added, removed_from_source),
        outcome |-> IF widget_fails THEN "raised" ELSE "applied",
        added_to_target |-> appended.added,
        removed_from_source |-> removed_from_source,
        removed_indices |-> removed_indices,
        target_indices |-> appended.indices]

-----------------------------------------------------------------------------
(* The selections of the orders tree and of the lists of the days.         *)

\* `selections`, while it is followed, is a record: tree is the set of the
\* 0-based rows selected in the orders tree, lists gives for each day cell
\* the set of the 0-based indices selected in its list
NoSelection == [tree |-> {}, lists |-> [k \in day_cells |-> {}]]

\* YBSApp._clear_other_day_selections; active_key is None or Some(day)
clear_other_day_selections(sel, active_key) ==
    [sel EXCEPT !.lists = [k \in day_cells |->
                              IF active_key = Some(k) THEN sel.lists[k] ELSE {}]]

\* YBSApp._clear_tree_selection
clear_tree_selection(sel) == [sel EXCEPT !.tree = {}]

\* the selection part of YBSApp._on_order_press: the lists of all days are
\* cleared, `selection` is the tree selection the press leaves
select_on_order_press(sel, selection) ==
    [clear_other_day_selections(sel, None) EXCEPT !.tree = Range(selection)]

\* the selection part of YBSApp._on_day_order_press: the lists of the other
\* days are cleared, `selection` is the selection the press leaves in the
\* list of the day
select_on_day_order_press(sel, assignments_map, date_key, selection) ==
    LET assignments == DictGet(assignments_map, date_key, <<>>)
    IN [clear_other_day_selections(sel, Some(date_key))
            EXCEPT !.lists[date_key] =
                       IF assignments = <<>> THEN {} ELSE Range(selection)]

\* YBSApp._restore_drag_selection: the widget of the press gets the
\* selection the press recorded (d.items is the selection_snapshot)
restore_drag_selection(sel, d, assignments_map) ==
    IF d.source = "tree" THEN [sel EXCEPT !.tree = Range(d.items)]
    ELSE IF d.source = "calendar" /\ d.source_date_key # None
    THEN LET date_key == d.source_date_key[1]
             size == Len(DictGet(assignments_map, date_key, <<>>))
         IN [sel EXCEPT !.lists[date_key] = {i \in Range(d.items) : i < size}]
    ELSE sel

\* gui.py 3588-3600: adjust_selection of YBSApp._handle_calendar_drop
adjust_selection(chosen, removed) ==
    {index - Cardinality({value \in removed : value < index}) :
         index \in chosen \ removed}

\* a drop handler that leaves the items it moved to another day selected there
select_on_calendar_drop_selects_moved(sel, message, drop, assignments_after) ==
    IF drop.outcome = "rejected" THEN sel
    ELSE
    LET payload == message.payload[1]
        normalized_key == payload.date_key
        normalized_source == payload.source_date_key
        clear_tree_after_drop == payload.source_kind = "tree"
        deselect_after_cross_day_move ==
            /\ payload.source_kind = "calendar"
            /\ normalized_source # None
            /\ normalized_source # Some(normalized_key)
        target_selection_before == sel.lists[normalized_key]
        base_target_selection ==
            IF normalized_source = Some(normalized_key)
            THEN adjust_selection(target_selection_before,
                                  Range(drop.removed_indices))
            ELSE target_selection_before
        combined_target_selection ==
            base_target_selection \cup Range(drop.target_indices)
        size == Len(DictGet(assignments_after, normalized_key, <<>>))
        tree_cleared ==
            IF clear_tree_after_drop
               /\ (drop.added_to_target \/ drop.removed_from_source)
            THEN clear_tree_selection(sel) ELSE sel
    IN [tree_cleared EXCEPT
            !.lists = [k \in day_cells |->
                          IF k = normalized_key
                          THEN {i \in combined_target_selection : i < size}
                          ELSE {}]]

\* gui.py 3479-3483, 3497-3506, 3602-3666: the selections after
\* YBSApp._handle_calendar_drop has applied a drop; drop is what
\* handle_calendar_drop returns for the message, assignments_after the store
\* it leaves
select_on_calendar_drop(sel, message, drop, assignments_after) ==
    IF drop.outcome = "rejected" THEN sel
    ELSE
    LET payload == message.payload[1]
        normalized_key == payload.date_key
        normalized_source == payload.source_date_key
        clear_tree_after_drop == payload.source_kind = "tree"
        deselect_after_cross_day_move ==
            /\ payload.source_kind = "calendar"
            /\ normalized_source # None
            /\ normalized_source # Some(normalized_key)
        target_selection_before == sel.lists[normalized_key]
        base_target_selection ==
            IF normalized_source = Some(normalized_key)
            THEN adjust_selection(target_selection_before,
                                  Range(drop.removed_indices))
            ELSE target_selection_before
        combined_target_selection ==
            IF deselect_after_cross_day_move THEN {}
            ELSE base_target_selection \cup Range(drop.target_indices)
        size == Len(DictGet(assignments_after, normalized_key, <<>>))
        tree_cleared ==
            IF clear_tree_after_drop
               /\ (drop.added_to_target \/ drop.removed_from_source)
            THEN clear_tree_selection(sel) ELSE sel
    IN [tree_cleared EXCEPT
            !.lists = [k \in day_cells |->
                          IF k = normalized_key
                          THEN {i \in combined_target_selection : i < size}
                          ELSE {}]]

\* the selections after a handler, None while they are not followed
SelectionsAfterDrop ==
    IF selections = None THEN None
    ELSE LET drop == handle_calendar_drop(State, Head(queue), FALSE)
         IN select_on_calendar_drop(selections, Head(queue), drop,
                                    drop.state.assignments)

SelectionsAfterRestore ==
    IF selections = None THEN None
    ELSE IF drag_data.items = <<>> THEN selections
    ELSE restore_drag_selection(selections, drag_data, calendar_assignments)

-----------------------------------------------------------------------------
(* Anchors, focus and the modifier keys.  Rows of the tree and entries of   *)
(* a list are 0-based indices; the rows of the tree are all_orders.         *)

\* the fields of self._drag_data that keep the focus and the anchor of the
\* press and the deferred toggle, after YBSApp._reset_drag_state
NoPress ==
    [selection_anchor |-> None, focus_item |-> None, active_index |-> None,
     pending_tree_toggle |-> FALSE]

\* self._tree_selection_anchor, tree.focus(), self._day_selection_anchor and
\* the active entry of every listbox after the constructor
NoAnchors ==
    [tree_anchor |-> None, tree_focus |-> None,
     day_anchor |-> [k \in day_cells |-> None],
     active |-> [k \in day_cells |-> 0],
     press |-> NoPress]

\* the indices from one index to another, both included
Between(a, b) == IF a <= b THEN a..b ELSE b..a

\* an index moved by one step and clamped to the rows 0..size-1
Clamp(index, size) ==
    IF index < 0 THEN 0 ELSE IF index >= size THEN size - 1 ELSE index

\* tree.selection() in the order of the rows, listbox.curselection()
RECURSIVE curselection(_)
curselection(chosen) ==
    IF chosen = {} THEN <<>>
    ELSE <<Min(chosen)>> \o curselection(chosen \ {Min(chosen)})

\* gui.py 2547-2626: the selection, the anchor and the focus that
\* YBSApp._on_order_press leaves; item is None below the rows
order_press(sel, anc, item, ctrl_pressed, shift_pressed) ==
    LET cleared == clear_other_day_selections(sel, None)
        anchor == anc.tree_anchor
    IN IF item = None
       THEN IF ~ctrl_pressed /\ ~shift_pressed
            THEN [sel |-> [cleared EXCEPT !.tree = {}],
                  anc |-> [anc EXCEPT !.tree_anchor = None, !.press = NoPress]]
            ELSE [sel |-> cleared,
                  anc |-> [anc EXCEPT !.press =
                              [NoPress EXCEPT !.selection_anchor = anchor]]]
       ELSE LET item_id == item[1]
                was_selected == item_id \in cleared.tree
                selection ==
                    IF shift_pressed
                    THEN Between(IF anchor = None THEN item_id ELSE anchor[1],
                                 item_id)
                    ELSE IF ctrl_pressed THEN cleared.tree \cup {item_id}
                    ELSE IF was_selected THEN cleared.tree
                    ELSE {item_id}
                new_anchor ==
                    IF shift_pressed
                    THEN (IF anchor = None THEN item ELSE anchor)
                    ELSE IF ctrl_pressed
                    THEN (IF ~was_selected /\ anchor = None THEN item ELSE anchor)
                    ELSE item
            IN [sel |-> [cleared EXCEPT !.tree = selection],
                anc |-> [anc EXCEPT
                            !.tree_anchor = new_anchor,
                            !.tree_focus = item,
                            !.press = [selection_anchor |-> new_anchor,
                                       focus_item |-> item,
                                       active_index |-> None,
                                       pending_tree_toggle |->
                                           ~shift_pressed /\ ctrl_pressed
                                           /\ was_selected]]]

\* gui.py 2797-2885: the selection, the anchor and the active entry that
\* YBSApp._on_day_order_press leaves in the list of the day; index is None
\* off the entries, pressed tells whether the handler records a press.  The
\* anchor that Tk keeps in the listbox is written and never read, and is not
\* followed.
day_order_press(sel, anc, assignments_map, date_key, index, ctrl_pressed, shift_pressed) ==
    LET cleared == clear_other_day_selections(sel, Some(date_key))
        size == Len(DictGet(assignments_map, date_key, <<>>))
        known == anc.day_anchor[date_key]
        valid == known # None /\ known[1] < size
        chosen == cleared.lists[date_key]
    IN IF size = 0
       THEN [sel |-> [cleared EXCEPT !.lists[date_key] = {}],
             anc |-> [anc EXCEPT !.day_anchor[date_key] = None,
                                 !.press = NoPress],
             pressed |-> TRUE]
       ELSE IF index = None
       THEN [sel |-> IF ~ctrl_pressed /\ ~shift_pressed
                     THEN [cleared EXCEPT !.lists[date_key] = {}]
                     ELSE cleared,
             anc |-> [anc EXCEPT !.press = NoPress],
             pressed |-> FALSE]
       ELSE LET i == index[1]
                anchor == IF valid THEN known[1] ELSE i
                selection ==
                    IF shift_pressed THEN Between(anchor, i)
                    ELSE IF ctrl_pressed
                    THEN (IF i \in chosen THEN chosen \ {i} ELSE chosen \cup {i})
                    ELSE IF i \in chosen THEN chosen
                    ELSE {i}
                new_anchor ==
                    IF shift_pressed THEN Some(anchor)
                    ELSE IF ctrl_pressed THEN known
                    ELSE index
            IN [sel |-> [cleared EXCEPT !.lists[date_key] = selection],
                anc |-> [anc EXCEPT
                            !.day_anchor[date_key] = new_anchor,
                            !.active[date_key] = i,
                            !.press = [NoPress EXCEPT !.active_index = index]],
                pressed |-> TRUE]

\* gui.py 2409-2482: the anchor, the focus and the active entry after
\* YBSApp._restore_drag_selection
restore_drag_anchors(anc, d) ==
    IF d.source = "tree"
    THEN [anc EXCEPT
             !.tree_focus = IF anc.press.focus_item # None
                            THEN anc.press.focus_item ELSE @,
             !.tree_anchor = IF anc.press.selection_anchor # None
                             THEN anc.press.selection_anchor
                             ELSE IF d.items = <<>> THEN None ELSE @]
    ELSE IF d.source = "calendar" /\ d.source_date_key # None
            /\ anc.press.active_index # None
    THEN [anc EXCEPT !.active[d.source_date_key[1]] = anc.press.active_index[1]]
    ELSE anc

\* gui.py 2662-2701, 3023-3060: the anchors after a drag handler; same_row:
\* the pointer is over the row of the tree that was pressed, begins: this
\* motion passes the threshold
anchors_on_drag(anc, d, same_row, begins) ==
    IF d.items = <<>> THEN anc
    ELSE LET restored == restore_drag_anchors(anc, d)
         IN [restored EXCEPT !.press.pending_tree_toggle =
                                 @ /\ same_row /\ ~begins]

\* gui.py 2703-2741: the selection and the anchors after
\* YBSApp._on_order_release
order_release(sel, anc, d, assignments_map, same_row) ==
    IF d.items = <<>>
    THEN [sel |-> sel, anc |-> [anc EXCEPT !.press = NoPress]]
    ELSE LET restored_sel == restore_drag_selection(sel, d, assignments_map)
             restored_anc == restore_drag_anchors(anc, d)
             toggles == /\ d.source = "tree"
                        /\ ~d.active
                        /\ anc.press.pending_tree_toggle
                        /\ same_row
                        /\ anc.press.focus_item # None
             remaining == IF toggles
                          THEN restored_sel.tree \ {anc.press.focus_item[1]}
                          ELSE restored_sel.tree
         IN [sel |-> [restored_sel EXCEPT !.tree = remaining],
             anc |-> [restored_anc EXCEPT
                         !.tree_anchor = IF toggles /\ remaining = {}
                                         THEN None ELSE @,
                         !.press = NoPress]]

\* an arrow key with Shift that adds the range to the selection of the tree
navigate_tree_with_keyboard_adds(sel, anc, direction, ctrl_pressed, shift_pressed) ==
    LET size == Len(all_orders)
        focus_index == IF anc.tree_focus # None THEN anc.tree_focus[1]
                       ELSE IF direction >= 0 THEN 0 ELSE size - 1
        new_index == Clamp(focus_index + direction, size)
        anchor == IF anc.tree_anchor # None THEN anc.tree_anchor[1]
                  ELSE focus_index
    IN IF size = 0 THEN [sel |-> sel, anc |-> anc]
       ELSE IF shift_pressed
       THEN [sel |-> [sel EXCEPT !.tree = @ \cup Between(anchor, new_index)],
             anc |-> [anc EXCEPT !.tree_anchor = Some(anchor),
                                 !.tree_focus = Some(new_index)]]
       ELSE [sel |-> [sel EXCEPT !.tree = {new_index}],
             anc |-> [anc EXCEPT !.tree_anchor = Some(new_index),
                                 !.tree_focus = Some(new_index)]]

\* YBSApp._navigate_tree_with_keyboard: an arrow key in the tree.  The
\* handler reads Shift alone, so Control changes nothing.
navigate_tree_with_keyboard(sel, anc, direction, ctrl_pressed, shift_pressed) ==
    LET size == Len(all_orders)
        focus_index == IF anc.tree_focus # None THEN anc.tree_focus[1]
                       ELSE IF direction >= 0 THEN 0 ELSE size - 1
        new_index == Clamp(focus_index + direction, size)
        anchor == IF anc.tree_anchor # None THEN anc.tree_anchor[1]
                  ELSE focus_index
    IN IF size = 0 THEN [sel |-> sel, anc |-> anc]
       ELSE IF shift_pressed
       THEN [sel |-> [sel EXCEPT !.tree = Between(anchor, new_index)],
             anc |-> [anc EXCEPT !.tree_anchor = Some(anchor),
                                 !.tree_focus = Some(new_index)]]
       ELSE [sel |-> [sel EXCEPT !.tree = {new_index}],
             anc |-> [anc EXCEPT !.tree_anchor = Some(new_index),
                                 !.tree_focus = Some(new_index)]]

\* YBSApp._on_day_order_key_navigate: an arrow key in the list of a day.  The
\* active entry of a listbox that holds entries is one of them.
day_order_key_navigate(sel, anc, assignments_map, date_key, direction, ctrl_pressed, shift_pressed) ==
    LET size == Len(DictGet(assignments_map, date_key, <<>>))
        active_index == anc.active[date_key]
        target_index == Clamp(active_index + direction, size)
        known == anc.day_anchor[date_key]
        anchor == IF known # None /\ known[1] < size THEN known[1]
                  ELSE active_index
    IN IF size = 0
       THEN [sel |-> sel, anc |-> [anc EXCEPT !.day_anchor[date_key] = None]]
       ELSE IF shift_pressed
       THEN [sel |-> [sel EXCEPT !.lists[date_key] = Between(anchor, target_index)],
             anc |-> [anc EXCEPT !.day_anchor[date_key] = Some(anchor),
                                 !.active[date_key] = target_index]]
       ELSE IF ctrl_pressed
       THEN [sel |-> sel, anc |-> [anc EXCEPT !.active[date_key] = target_index]]
       ELSE [sel |-> [sel EXCEPT !.lists[date_key] = {target_index}],
             anc |-> [anc EXCEPT !.day_anchor[date_key] = Some(target_index),
                                 !.active[date_key] = target_index]]

\* whether the pointer of a motion or of a release may be over the row of
\* the tree that was pressed; it is not while it is over a day cell
SameRows(target) ==
    IF anchors = None THEN {FALSE}
    ELSE IF drag_data.source = "tree" /\ target = None THEN BOOLEAN
    ELSE {FALSE}

\* the anchors after a handler, None while they are not followed
AnchorsAfterDrag(same_row, begins) ==
    IF anchors = None THEN None
    ELSE anchors_on_drag(anchors, drag_data, same_row, begins)

AnchorsAfterOrderRelease(same_row) ==
    IF anchors = None THEN None
    ELSE order_release(selections, anchors, drag_data, calendar_assignments,
                       same_row).anc

SelectionsAfterOrderRelease(same_row) ==
    IF anchors = None THEN SelectionsAfterRestore
    ELSE order_release(selections, anchors, drag_data, calendar_assignments,
                       same_row).sel

AnchorsAfterDayOrderRelease ==
    IF anchors = None THEN None
    ELSE [(IF drag_data.items = <<>> THEN anchors
           ELSE restore_drag_anchors(anchors, drag_data))
              EXCEPT !.press = NoPress]

-----------------------------------------------------------------------------
(* The state machine.                                                      *)

\* no worker thread runs
NoWorkers == [login |-> 0, refresh |-> 0]

\* the store, the history, the queue and the gesture after YBSApp.__init__
Constructed ==
    /\ \E data \in StateFiles :
           IF load_raises(data)
           THEN \* no application object exists; no handler ever runs
                /\ calendar_notes = EmptyDict
                /\ calendar_assignments = EmptyDict
                /\ last = <<"load_state raised", data>>
           ELSE /\ calendar_notes = load_state(data).notes
                /\ calendar_assignments = load_state(data).assignments
                /\ last = <<"load_state", data>>
    /\ undo_stack = <<>>
    /\ redo_stack = <<>>
    /\ state_save_after_id = FALSE
    /\ timers = 0
    /\ queue = <<>>
    /\ drag_data = reset_drag_state
    /\ calendar_hover = None
    /\ polling = FALSE
    /\ raised = 0
    /\ workers = NoWorkers

Init ==
    /\ Constructed
    /\ pointer = None
    /\ selections = None
    /\ anchors = None

\* the store and history part of the next state
Becomes(s) ==
    /\ calendar_notes' = s.notes
    /\ calendar_assignments' = s.assignments
    /\ undo_stack' = s.undo
    /\ redo_stack' = s.redo
    /\ state_save_after_id' = s.save
    /\ timers' = s.timers

\* the store and history part of the next state, reached by handler `op`
Runs(op, s) ==
    /\ Becomes(s)
    /\ last' = IF s = State THEN last ELSE <<op>>

\* the constructor returned, the window is not destroyed and the event loop
\* runs
Running == last[1] \notin {"load_state raised", "on_close", "on_close not written"}

\* an undo entry of a day outside the month shown: it is older than the
\* operations of the model, which all work on the days of day_cells
IsOlder(entry) == entry.kind = "notes" /\ entry.date_key \notin day_cells

\* the undo entries pushed since the month is shown
Recent(stack) == Cardinality({i \in 1..Len(stack) : ~IsOlder(stack[i])})

\* the bound of the model
InFlight ==
    (IF drag_data.source = "none" THEN 0 ELSE 1) + workers.login + workers.refresh
Room ==
    Recent(undo_stack) + Len(redo_stack) + Len(queue) + InFlight + raised < MaxOps

\* the texts a user leaves in a notes widget
NoteTexts == {<<>>, <<" ">>, <<"a">>}

\* the selections of a list of n rows, as increasing 0-based indices
Selections(n) ==
    {[i \in 1..Len(sel) |-> sel[i] - 1] : sel \in IncreasingSeqs(n)}

\* what lies under the pointer at a release: no day cell, or a day cell
Targets == {None} \cup {Some(k) : k \in day_cells}

\* <FocusOut> of a day's notes widget
SaveDayNotes ==
    \E date_key \in day_cells, new_text \in NoteTexts :
        /\ Running /\ ~polling /\ Room
        /\ Runs("save_day_notes", save_day_notes(State, date_key, new_text))
        /\ UNCHANGED <<queue, drag_data, calendar_hover, polling, raised, widgets>>

\* <Delete> in a day's list.  remove_selected of the day details dialog
\* (gui.py 2222-2258) takes the same step with a selection of one index.
OnDayOrderDelete ==
    \E date_key \in day_cells :
      \E selection \in SUBSET (0..(Len(DictGet(calendar_assignments, date_key, <<>>)) - 1)) :
        /\ Running /\ ~polling /\ Room
        /\ Runs("on_day_order_delete", on_day_order_delete(State, date_key, selection))
        /\ UNCHANGED <<queue, drag_data, calendar_hover, polling, raised, widgets>>

\* the clear request of a day header.  clear_day of the day details dialog
\* (gui.py 2260-2280) takes the same step.
OnDayClearRequest ==
    \E date_key \in day_cells :
        /\ Running /\ ~polling /\ Room
        /\ Runs("on_day_clear_request", on_day_clear_request(State, date_key))
        /\ UNCHANGED <<queue, drag_data, calendar_hover, polling, raised, widgets>>

\* <Control-z> outside a notes widget
UndoLastAction ==
    /\ Running /\ ~polling
    /\ Runs("undo_last_action", undo_last_action(State))
    /\ UNCHANGED <<queue, drag_data, calendar_hover, polling, raised, widgets>>

\* <Control-y> outside a notes widget
RedoLastAction ==
    /\ Running /\ ~polling
    /\ Runs("redo_last_action", redo_last_action(State))
    /\ UNCHANGED <<queue, drag_data, calendar_hover, polling, raised, widgets>>

\* the timer of _schedule_state_save expires: YBSApp._save_state
SaveState ==
    /\ Running /\ ~polling
    /\ timers > 0
    /\ timers' = timers - 1
    /\ state_save_after_id' = FALSE
    /\ last' = <<"save_state">>
    /\ UNCHANGED <<calendar_notes, calendar_assignments, undo_stack,
                   redo_stack, queue, drag_data, calendar_hover, polling,
                   raised, widgets>>

\* the timer expires and the write of the file raises OSError, which
\* YBSApp._save_state ignores: the timer is cleared and the file is as it was
SaveStateNotWritten ==
    /\ Running /\ ~polling
    /\ timers > 0
    /\ timers' = timers - 1
    /\ state_save_after_id' = FALSE
    /\ last' = <<"save_state not written">>
    /\ UNCHANGED <<calendar_notes, calendar_assignments, undo_stack,
                   redo_stack, queue, drag_data, calendar_hover, polling,
                   raised, widgets>>

\* a gesture begun in the orders tree: press (the tree selection becomes
\* `selection`), motion past the threshold and release over `target`
DragFromTree ==
    \E selection \in Selections(Len(all_orders)) \ {<<>>}, target \in Targets :
        /\ Running /\ ~polling /\ Room
        /\ queue' = Append(queue,
               order_release_message(begin_drag(on_order_press(selection)), target))
        /\ drag_data' = reset_drag_state
        /\ calendar_hover' = None
        /\ last' = <<"on_order_release">>
        /\ UNCHANGED <<calendar_notes, calendar_assignments, undo_stack,
                       redo_stack, state_save_after_id, timers, polling, raised, widgets>>

\* a gesture begun in a day's list: press (the list selection becomes
\* `selection`), motion past the threshold and release over `target`
DragFromDay ==
    \E date_key \in day_cells, target \in Targets :
      \E selection \in Selections(Len(DictGet(calendar_assignments, date_key, <<>>))) \ {<<>>} :
        /\ Running /\ ~polling /\ Room
        /\ queue' = Append(queue,
               day_order_release_message(
                   begin_drag(on_day_order_press(calendar_assignments, date_key,
                                                 selection)), target))
        /\ drag_data' = reset_drag_state
        /\ calendar_hover' = None
        /\ last' = <<"on_day_order_release">>
        /\ UNCHANGED <<calendar_notes, calendar_assignments, undo_stack,
                       redo_stack, state_save_after_id, timers, polling, raised, widgets>>

\* an iteration that schedules a save after every message, the rejected ones
\* included
PollQueueAlwaysSaves ==
    /\ Running
    /\ queue # <<>>
    /\ Head(queue).type = "calendar_drop"
    /\ Becomes(schedule_state_save(
                   handle_calendar_drop(State, Head(queue), FALSE).state))
    /\ queue' = Tail(queue)
    /\ polling' = (Tail(queue) # <<>>)
    /\ last' = <<"handle_calendar_drop", Head(queue)>>
    /\ selections' = SelectionsAfterDrop
    /\ UNCHANGED <<drag_data, calendar_hover, raised, pointer, workers, anchors>>

\* one iteration of the loop of YBSApp._poll_queue: the oldest message is
\* taken from the queue and its handler returns
PollQueue ==
    /\ Running
    /\ queue # <<>>
    /\ Head(queue).type = "calendar_drop"
    /\ Becomes(handle_calendar_drop(State, Head(queue), FALSE).state)
    /\ queue' = Tail(queue)
    /\ polling' = (Tail(queue) # <<>>)
    /\ last' = <<"handle_calendar_drop", Head(queue)>>
    /\ selections' = SelectionsAfterDrop
    /\ UNCHANGED <<drag_data, calendar_hover, raised, pointer, workers, anchors>>

\* one iteration of the loop of YBSApp._poll_queue in which the handler
\* raises: the exception leaves the loop, finally re-arms the poll
PollQueueRaises ==
    /\ Running
    /\ queue # <<>>
    /\ Head(queue).type = "calendar_drop"
    /\ ~drop_rejected(Head(queue))
    /\ Becomes(handle_calendar_drop(State, Head(queue), TRUE).state)
    /\ queue' = Tail(queue)
    /\ polling' = FALSE
    /\ raised' = raised + 1
    /\ last' = <<"handle_calendar_drop raised", Head(queue)>>
    /\ UNCHANGED <<drag_data, calendar_hover, widgets>>

Next ==
    \/ SaveDayNotes
    \/ OnDayOrderDelete
    \/ OnDayClearRequest
    \/ UndoLastAction
    \/ RedoLastAction
    \/ SaveState
    \/ DragFromTree
    \/ DragFromDay
    \/ PollQueue
    \/ PollQueueRaises

Spec == Init /\ [][Next]_vars

\* the results a worker thread reports: the orders of the server, which are
\* the orders the tree shows already, or a failure
LoginResult(success, operation) ==
    [type |-> "login_result", success |-> success,
     message |-> IF ~success THEN "error"
                 ELSE IF operation = "login" THEN "Login successful."
                 ELSE "Orders refreshed.",
     orders |-> IF success THEN all_orders ELSE <<>>,
     operation |-> operation]

\* the Login button or <Return> in the login form, with a user name and a
\* password typed: YBSApp._on_login_clicked starts a worker thread
OnLoginClicked ==
    /\ Running /\ ~polling /\ Room
    /\ workers' = [workers EXCEPT !.login = @ + 1]
    /\ last' = <<"on_login_clicked">>
    /\ UNCHANGED <<calendar_notes, calendar_assignments, undo_stack,
                   redo_stack, state_save_after_id, timers, queue, drag_data,
                   calendar_hover, polling, raised, pointer, selections, anchors>>

\* the Refresh button: YBSApp._on_refresh_clicked starts a worker thread
OnRefreshClicked ==
    /\ Running /\ ~polling /\ Room
    /\ workers' = [workers EXCEPT !.refresh = @ + 1]
    /\ last' = <<"on_refresh_clicked">>
    /\ UNCHANGED <<calendar_notes, calendar_assignments, undo_stack,
                   redo_stack, state_save_after_id, timers, queue, drag_data,
                   calendar_hover, polling, raised, pointer, selections, anchors>>

\* a worker thread that puts its result in front of the messages queued
PerformLoginInFront ==
    \E success \in BOOLEAN :
        /\ Running
        /\ workers.login > 0
        /\ workers' = [workers EXCEPT !.login = @ - 1]
        /\ queue' = <<LoginResult(success, "login")>> \o queue
        /\ UNCHANGED <<calendar_notes, calendar_assignments, undo_stack,
                       redo_stack, state_save_after_id, timers, drag_data,
                       calendar_hover, polling, raised, last, pointer,
                       selections, anchors>>

\* the worker thread of YBSApp._on_login_clicked puts its result and ends;
\* it runs beside the UI thread, also while a poll is inside its loop
PerformLogin ==
    \E success \in BOOLEAN :
        /\ Running
        /\ workers.login > 0
        /\ workers' = [workers EXCEPT !.login = @ - 1]
        /\ queue' = Append(queue, LoginResult(success, "login"))
        /\ UNCHANGED <<calendar_notes, calendar_assignments, undo_stack,
                       redo_stack, state_save_after_id, timers, drag_data,
                       calendar_hover, polling, raised, last, pointer,
                       selections, anchors>>

\* the worker thread of YBSApp._on_refresh_clicked puts its result and ends
PerformRefresh ==
    \E success \in BOOLEAN :
        /\ Running
        /\ workers.refresh > 0
        /\ workers' = [workers EXCEPT !.refresh = @ - 1]
        /\ queue' = Append(queue, LoginResult(success, "refresh"))
        /\ UNCHANGED <<calendar_notes, calendar_assignments, undo_stack,
                       redo_stack, state_save_after_id, timers, drag_data,
                       calendar_hover, polling, raised, last, pointer,
                       selections, anchors>>

\* one iteration of the loop of YBSApp._poll_queue on a login_result:
\* YBSApp._handle_login_result sets the status line and the buttons and, on
\* success, fills the tree again, which leaves no row of it selected
PollLoginResult ==
    /\ Running
    /\ queue # <<>>
    /\ Head(queue).type = "login_result"
    /\ queue' = Tail(queue)
    /\ polling' = (Tail(queue) # <<>>)
    /\ last' = <<"handle_login_result", Head(queue)>>
    /\ selections' = IF selections = None \/ ~Head(queue).success
                     THEN selections
                     ELSE clear_tree_selection(selections)
    /\ UNCHANGED <<calendar_notes, calendar_assignments, undo_stack,
                   redo_stack, state_save_after_id, timers, drag_data,
                   calendar_hover, raised, pointer, workers, anchors>>

\* the queue between its writers, the release handlers and the worker
\* threads, and its reader, the poll
NextQueue ==
    \/ DragFromTree
    \/ DragFromDay
    \/ OnLoginClicked
    \/ OnRefreshClicked
    \/ PerformLogin
    \/ PerformRefresh
    \/ PollQueue
    \/ PollQueueRaises
    \/ PollLoginResult

SpecQueue == Init /\ [][NextQueue]_vars

\* the application on a disk that may refuse the write of the state file
NextSave == Next \/ SaveStateNotWritten

SpecSave == Init /\ [][NextSave]_vars

\* an _on_close that writes the file and leaves the pending timer alone
OnCloseKeepsTimer ==
    /\ Running /\ ~polling
    /\ state_save_after_id' = FALSE
    /\ timers' = timers
    /\ last' = <<"on_close", save_state(calendar_notes, calendar_assignments),
                 state_save_after_id>>
    /\ UNCHANGED <<calendar_notes, calendar_assignments, undo_stack,
                   redo_stack, queue, drag_data, calendar_hover, polling, raised, widgets>>

\* WM_DELETE_WINDOW or File > Exit: YBSApp._on_close cancels the pending
\* timer, writes the file and destroys the window; `last` keeps the file and
\* whether a timer was pending
OnClose ==
    /\ Running /\ ~polling
    /\ state_save_after_id' = FALSE
    /\ timers' = IF state_save_after_id THEN timers - 1 ELSE timers
    /\ last' = <<"on_close", save_state(calendar_notes, calendar_assignments),
                 state_save_after_id>>
    /\ UNCHANGED <<calendar_notes, calendar_assignments, undo_stack,
                   redo_stack, queue, drag_data, calendar_hover, polling, raised, widgets>>

\* YBSApp._on_close when the write raises OSError, which _save_state ignores
OnCloseNotWritten ==
    /\ Running /\ ~polling
    /\ state_save_after_id' = FALSE
    /\ timers' = IF state_save_after_id THEN timers - 1 ELSE timers
    /\ last' = <<"on_close not written">>
    /\ UNCHANGED <<calendar_notes, calendar_assignments, undo_stack,
                   redo_stack, queue, drag_data, calendar_hover, polling, raised, widgets>>

\* the operations of a session, the writes of the timer and the close
NextClose ==
    \/ SaveDayNotes
    \/ OnDayOrderDelete
    \/ OnDayClearRequest
    \/ UndoLastAction
    \/ RedoLastAction
    \/ SaveState
    \/ DragFromTree
    \/ DragFromDay
    \/ PollQueue
    \/ OnClose
    \/ OnCloseNotWritten

SpecClose == Init /\ [][NextClose]_vars

\* polls that end with the first handler that raises
GetNowaitUntilRaised ==
    /\ Running
    /\ raised = 0
    /\ queue # <<>>
    /\ queue' = Tail(queue)

\* self._queue.get_nowait() in the loop of YBSApp._poll_queue: the oldest
\* message leaves the queue
GetNowait ==
    /\ Running
    /\ queue # <<>>
    /\ queue' = Tail(queue)

\* the queue, its writers and its reader until the window is closed
NextQueueFair == NextQueue \/ OnClose

\* the poll the constructor starts runs its loop until get_nowait finds the
\* queue empty, and its finally clause arms the timer of the next poll, which
\* the main loop of Tk fires 100 ms later, whether the loop ended on the empty
\* queue or on the exception of a handler: a message that can be taken from
\* the queue is taken
SpecQueueFair == Init /\ [][NextQueueFair]_vars /\ WF_queue(GetNowait)

\* the day of February whose notes were edited before the month shown
\* became March
older_day == <<2024, 2, 1>>

\* the undo entry of the i-th of these edits, which replaced the text "i"
\* by the text "i+1"
older_entry(i) ==
    [kind |-> "notes", date_key |-> older_day, had_key |-> TRUE,
     previous |-> Some(DecimalDigits(i))]

\* the application after n edits of that day's notes, n one or two short
\* of the limit of the undo stack or equal to it, all saved to the file
InitFullStack ==
    /\ \E n \in (undo_stack_limit - 2)..undo_stack_limit :
           /\ undo_stack = [i \in 1..n |-> older_entry(i)]
           /\ calendar_notes = DictSet(EmptyDict, older_day, DecimalDigits(n + 1))
    /\ calendar_assignments = EmptyDict
    /\ redo_stack = <<>>
    /\ state_save_after_id = FALSE
    /\ timers = 0
    /\ queue = <<>>
    /\ drag_data = reset_drag_state
    /\ calendar_hover = None
    /\ pointer = None
    /\ selections = None
    /\ anchors = None
    /\ polling = FALSE
    /\ raised = 0
    /\ workers = NoWorkers
    /\ last = <<"save_state">>

\* <Control-z> on an entry pushed since the month is shown
UndoRecent ==
    /\ undo_stack # <<>>
    /\ ~IsOlder(undo_stack[Len(undo_stack)])
    /\ UndoLastAction

NextFullStack ==
    \/ SaveDayNotes
    \/ UndoRecent
    \/ RedoLastAction
    \/ SaveState
    \/ DragFromTree
    \/ PollQueue

SpecFullStack == InitFullStack /\ [][NextFullStack]_vars

\* the pointer is not followed, or it is over `place`: a day cell, or None
\* for the rest of the window
PointerIn(place) == IF pointer = None THEN TRUE ELSE pointer.over = place

\* the hover colours after YBSApp._end_drag
PointerAfterEndDrag ==
    IF pointer = None THEN None
    ELSE remove_calendar_hover(pointer, FALSE, calendar_hover)

\* the hover colours after a drag handler has seen `target` under the pointer
PointerAfterDrag(target) ==
    IF pointer = None THEN None
    ELSE IF drag_data.items = <<>> THEN pointer
    ELSE update_calendar_hover(pointer, TRUE, calendar_hover, target)

\* <ButtonPress-1> in the orders tree: the press ends what a lost release
\* left behind and records the selection
OnOrderPress ==
    \E selection \in Selections(Len(all_orders)) :
        /\ Running /\ ~polling
        /\ PointerIn(None)
        /\ Room \/ InFlight = 1
        /\ drag_data' = on_order_press(selection)
        /\ calendar_hover' = end_drag(calendar_hover).hover
        /\ last' = <<"on_order_press">>
        /\ pointer' = PointerAfterEndDrag
        /\ selections' = IF selections = None THEN None
                        ELSE select_on_order_press(selections, selection)
        /\ UNCHANGED <<calendar_notes, calendar_assignments, undo_stack,
                       redo_stack, state_save_after_id, timers, queue, polling,
                       raised, workers, anchors>>

\* <ButtonPress-1> in the list of a day
OnDayOrderPress ==
    \E date_key \in day_cells :
      \E selection \in Selections(Len(DictGet(calendar_assignments, date_key, <<>>))) :
        /\ Running /\ ~polling
        /\ PointerIn(Some(date_key))
        /\ Room \/ InFlight = 1
        /\ drag_data' = on_day_order_press(calendar_assignments, date_key, selection)
        /\ calendar_hover' = end_drag(calendar_hover).hover
        /\ last' = <<"on_day_order_press">>
        /\ pointer' = PointerAfterEndDrag
        /\ selections' = IF selections = None THEN None
                        ELSE select_on_day_order_press(selections, calendar_assignments,
                                                       date_key, selection)
        /\ UNCHANGED <<calendar_notes, calendar_assignments, undo_stack,
                       redo_stack, state_save_after_id, timers, queue, polling,
                       raised, workers, anchors>>

\* <B1-Motion> after a press; a pointer that left the tree for a day cell has
\* passed the threshold, a pointer in a day's list is over a day cell
OnDrag ==
    \E past_threshold \in BOOLEAN, target \in Targets :
      \E same_row \in SameRows(target) :
        /\ Running /\ ~polling
        /\ drag_data.source # "none"
        /\ (drag_data.source = "tree" /\ target # None) =>
                (past_threshold \/ drag_data.active)
        /\ drag_data' = on_drag(drag_data, calendar_hover, past_threshold, target).drag
        /\ calendar_hover' = on_drag(drag_data, calendar_hover, past_threshold, target).hover
        /\ last' = <<IF drag_data.source = "tree" THEN "on_order_drag"
                     ELSE "on_day_order_drag">>
        /\ pointer' = PointerAfterDrag(target)
        /\ selections' = SelectionsAfterRestore
        /\ anchors' = AnchorsAfterDrag(same_row, past_threshold /\ ~drag_data.active)
        /\ UNCHANGED <<calendar_notes, calendar_assignments, undo_stack,
                       redo_stack, state_save_after_id, timers, queue, polling,
                       raised, workers>>

\* DRAG_THRESHOLD, in pixels
DRAG_THRESHOLD == 5

Abs(x) == IF x < 0 THEN -x ELSE x

\* a test that asks for more than DRAG_THRESHOLD pixels along an axis
threshold_reached_strict(dx, dy) ==
    Abs(dx) > DRAG_THRESHOLD \/ Abs(dy) > DRAG_THRESHOLD

\* gui.py 2687-2690, 3037-3040: the test of both drag handlers on the
\* offsets of the pointer from the press point
threshold_reached(dx, dy) ==
    Abs(dx) >= DRAG_THRESHOLD \/ Abs(dy) >= DRAG_THRESHOLD

\* offsets of the pointer from the press point along one axis, in pixels
Offsets == {-5, 0, 4, 5}

\* <B1-Motion> after a press, with the pointer at the offsets dx and dy from
\* the press point; `last` keeps the offsets
OnDragAt ==
    \E dx \in Offsets, dy \in Offsets, target \in Targets :
      \E same_row \in SameRows(target) :
        /\ Running /\ ~polling
        /\ drag_data.source # "none"
        /\ (drag_data.source = "tree" /\ target # None) =>
                (threshold_reached(dx, dy) \/ drag_data.active)
        /\ drag_data' = on_drag(drag_data, calendar_hover,
                                threshold_reached(dx, dy), target).drag
        /\ calendar_hover' = on_drag(drag_data, calendar_hover,
                                     threshold_reached(dx, dy), target).hover
        /\ last' = <<IF drag_data.source = "tree" THEN "on_order_drag"
                     ELSE "on_day_order_drag", dx, dy>>
        /\ pointer' = PointerAfterDrag(target)
        /\ selections' = SelectionsAfterRestore
        /\ anchors' = AnchorsAfterDrag(same_row,
                                    threshold_reached(dx, dy) /\ ~drag_data.active)
        /\ UNCHANGED <<calendar_notes, calendar_assignments, undo_stack,
                       redo_stack, state_save_after_id, timers, queue, polling,
                       raised, workers>>

\* the queue after a release handler has run
Queued(message) == IF message = None THEN queue ELSE Append(queue, message[1])

\* <ButtonRelease-1> in the orders tree, after a press there or with no press
\* recorded; `last` keeps whether the handler found a payload and an active
\* drag
OnOrderRelease ==
    \E target \in Targets :
      \E same_row \in SameRows(target) :
        /\ Running /\ ~polling
        /\ drag_data.source \in {"none", "tree"}
        /\ queue' = Queued(on_order_release(drag_data, calendar_hover, target).message)
        /\ drag_data' = on_order_release(drag_data, calendar_hover, target).drag
        /\ calendar_hover' = on_order_release(drag_data, calendar_hover, target).hover
        /\ last' = <<"on_order_release", drag_data.items # <<>>, drag_data.active>>
        /\ pointer' = PointerAfterEndDrag
        /\ selections' = SelectionsAfterOrderRelease(same_row)
        /\ anchors' = AnchorsAfterOrderRelease(same_row)
        /\ UNCHANGED <<calendar_notes, calendar_assignments, undo_stack,
                       redo_stack, state_save_after_id, timers, polling, raised, workers>>

\* <ButtonRelease-1> in the list of a day, after a press there or with no
\* press recorded
OnDayOrderRelease ==
    \E date_key \in day_cells, target \in Targets :
        /\ Running /\ ~polling
        /\ \/ drag_data.source = "none"
           \/ drag_data.source = "calendar" /\ drag_data.source_date_key = Some(date_key)
        /\ queue' = Queued(on_day_order_release(drag_data, calendar_hover,
                                                date_key, target).message)
        /\ drag_data' = on_day_order_release(drag_data, calendar_hover,
                                             date_key, target).drag
        /\ calendar_hover' = on_day_order_release(drag_data, calendar_hover,
                                                  date_key, target).hover
        /\ last' = <<"on_day_order_release", drag_data.items # <<>>,
                     drag_data.active>>
        /\ pointer' = PointerAfterEndDrag
        /\ selections' = SelectionsAfterRestore
        /\ anchors' = AnchorsAfterDayOrderRelease
        /\ UNCHANGED <<calendar_notes, calendar_assignments, undo_stack,
                       redo_stack, state_save_after_id, timers, polling, raised, workers>>

\* the gesture event by event, and the handling of the drops it queues
NextGesture ==
    \/ OnOrderPress
    \/ OnDayOrderPress
    \/ OnDrag
    \/ OnOrderRelease
    \/ OnDayOrderRelease
    \/ PollQueue

SpecGesture == Init /\ [][NextGesture]_vars

\* the Today button while the month of today is shown: YBSApp._go_to_today
\* removes the hover highlight and YBSApp._render_calendar saves the notes
\* of the day cells (new_text: the text of the notes widget that had the
\* focus, the other widgets hold the saved notes), destroys the cells and
\* builds new ones for the same days
GoToToday ==
    \E date_key \in day_cells, new_text \in NoteTexts :
        LET s == save_day_notes(State, date_key, new_text)
        IN /\ Running /\ ~polling
           /\ Room \/ s = State
           /\ Becomes(s)
           /\ calendar_hover' = None
           /\ last' = <<"go_to_today">>
           /\ pointer' = IF pointer = None THEN None ELSE NoPointerHover
           /\ UNCHANGED <<queue, drag_data, polling, raised, selections, workers, anchors>>

\* the gesture event by event and the re-rendering of the calendar
NextRender == NextGesture \/ GoToToday

SpecRender == Init /\ [][NextRender]_vars

\* the calendar with the pointer followed from cell to cell
InitPointer ==
    /\ Constructed
    /\ pointer = NoPointerHover
    /\ selections = None
    /\ anchors = None

\* <Enter> on the frame of a day cell; while a button is held Tk delivers
\* <Enter> and <Leave> to the pressed widget only
PointerEnter ==
    \E date_key \in day_cells :
        /\ Running /\ ~polling
        /\ drag_data.source = "none"
        /\ pointer.over = None
        /\ pointer' = [on_day_cell_pointer_enter(pointer, date_key, drag_data.active,
                                                 calendar_hover)
                           EXCEPT !.over = Some(date_key)]
        /\ last' = <<"on_day_cell_pointer_enter">>
        /\ UNCHANGED <<calendar_notes, calendar_assignments, undo_stack,
                       redo_stack, state_save_after_id, timers, queue,
                       drag_data, calendar_hover, polling, raised, selections, workers, anchors>>

\* <Leave> on the frame of the day cell the pointer was over, for a pointer
\* that has left the cell
PointerLeave ==
    /\ Running /\ ~polling
    /\ drag_data.source = "none"
    /\ pointer.over # None
    /\ pointer' = [on_day_cell_pointer_leave(pointer, pointer.over[1],
                                             drag_data.active, calendar_hover)
                       EXCEPT !.over = None]
    /\ last' = <<"on_day_cell_pointer_leave">>
    /\ UNCHANGED <<calendar_notes, calendar_assignments, undo_stack,
                   redo_stack, state_save_after_id, timers, queue,
                   drag_data, calendar_hover, polling, raised, selections, workers, anchors>>

NextPointer ==
    \/ PointerEnter
    \/ PointerLeave
    \/ OnOrderPress
    \/ OnDayOrderPress
    \/ OnDrag
    \/ OnOrderRelease
    \/ OnDayOrderRelease

SpecPointer == InitPointer /\ [][NextPointer]_vars

\* the calendar with the selections of the tree and of the lists followed
InitSelect ==
    /\ Constructed
    /\ pointer = None
    /\ selections = NoSelection
    /\ anchors = None

\* <KeyPress-Up> and the other arrow keys in the orders tree, without Shift:
\* YBSApp._navigate_tree_with_keyboard selects the row next to the focused
\* one; target is that row
OnTreeKeyNavigate ==
    \E target \in 0..(Len(all_orders) - 1) :
        /\ Running /\ ~polling
        /\ selections # None
        /\ selections' = [selections EXCEPT !.tree = {target}]
        /\ last' = <<"on_tree_key_navigate">>
        /\ UNCHANGED <<calendar_notes, calendar_assignments, undo_stack,
                       redo_stack, state_save_after_id, timers, queue,
                       drag_data, calendar_hover, pointer, polling, raised, workers, anchors>>

\* an arrow key in the list of a day, without Shift and Control:
\* YBSApp._on_day_order_key_navigate selects the entry next to the active
\* one; target_index is that entry
OnDayOrderKeyNavigate ==
    \E date_key \in day_cells :
      \E target_index \in 0..(Len(DictGet(calendar_assignments, date_key, <<>>)) - 1) :
        /\ Running /\ ~polling
        /\ selections # None
        /\ selections' = [selections EXCEPT !.lists[date_key] = {target_index}]
        /\ last' = <<"on_day_order_key_navigate">>
        /\ UNCHANGED <<calendar_notes, calendar_assignments, undo_stack,
                       redo_stack, state_save_after_id, timers, queue,
                       drag_data, calendar_hover, pointer, polling, raised, workers, anchors>>

\* the gesture event by event, the drops it queues and the arrow keys
NextSelect ==
    \/ NextGesture
    \/ OnTreeKeyNavigate
    \/ OnDayOrderKeyNavigate

SpecSelect == InitSelect /\ [][NextSelect]_vars

\* the gestures that begin in the list of a day and the drops they queue,
\* with the selections followed
NextDayGesture ==
    \/ OnDayOrderPress
    \/ OnDrag
    \/ OnDayOrderRelease
    \/ PollQueue

SpecDayGesture == InitSelect /\ [][NextDayGesture]_vars

\* the calendar with the selections, the anchors and the focus followed,
\* started without a state file or on a file it wrote itself
InitKeys ==
    /\ Constructed
    /\ last \in {<<"load_state", None>>, <<"load_state", WrittenFile>>}
    /\ pointer = None
    /\ selections = NoSelection
    /\ anchors = NoAnchors

\* the modifier keys of an event
Modifiers == BOOLEAN

\* the arrow keys: Up and Left move back, Down and Right move on
Directions == {-1, 1}

\* what a press finds under the pointer in a list of n rows: no row, or a row
RowsUnder(n) == {None} \cup {Some(i) : i \in 0..(n - 1)}

\* <ButtonPress-1> in the orders tree, over the row `item` or below the rows,
\* with or without Control and Shift; `last` keeps the row and the keys
OnOrderPressAt ==
    \E item \in RowsUnder(Len(all_orders)) :
      \E ctrl_pressed \in Modifiers, shift_pressed \in Modifiers :
        LET after == order_press(selections, anchors, item, ctrl_pressed,
                                 shift_pressed)
        IN /\ Running /\ ~polling
           /\ anchors # None
           /\ Room \/ InFlight = 1
           /\ drag_data' = on_order_press(IF item = None THEN <<>>
                                          ELSE curselection(after.sel.tree))
           /\ calendar_hover' = end_drag(calendar_hover).hover
           /\ last' = <<"on_order_press", item, ctrl_pressed, shift_pressed>>
           /\ pointer' = PointerAfterEndDrag
           /\ selections' = after.sel
           /\ anchors' = after.anc
           /\ UNCHANGED <<calendar_notes, calendar_assignments, undo_stack,
                          redo_stack, state_save_after_id, timers, queue,
                          polling, raised, workers>>

\* <ButtonPress-1> in the list of a day, over the entry `index` or off the
\* entries, with or without Control and Shift
OnDayOrderPressAt ==
    \E date_key \in day_cells :
      \E index \in RowsUnder(Len(DictGet(calendar_assignments, date_key, <<>>))) :
        \E ctrl_pressed \in Modifiers, shift_pressed \in Modifiers :
          LET after == day_order_press(selections, anchors, calendar_assignments,
                                       date_key, index, ctrl_pressed,
                                       shift_pressed)
          IN /\ Running /\ ~polling
             /\ anchors # None
             /\ Room \/ InFlight = 1
             /\ drag_data' =
                    IF after.pressed
                    THEN on_day_order_press(calendar_assignments, date_key,
                             curselection(after.sel.lists[date_key]))
                    ELSE reset_drag_state
             /\ calendar_hover' = end_drag(calendar_hover).hover
             /\ last' = <<"on_day_order_press", date_key, index, ctrl_pressed,
                          shift_pressed>>
             /\ pointer' = PointerAfterEndDrag
             /\ selections' = after.sel
             /\ anchors' = after.anc
             /\ UNCHANGED <<calendar_notes, calendar_assignments, undo_stack,
                            redo_stack, state_save_after_id, timers, queue,
                            polling, raised, workers>>

\* an arrow key in the orders tree, with or without Control and Shift
OnTreeKeyPress ==
    \E direction \in Directions :
      \E ctrl_pressed \in Modifiers, shift_pressed \in Modifiers :
        LET after == navigate_tree_with_keyboard(selections, anchors, direction,
                                                 ctrl_pressed, shift_pressed)
        IN /\ Running /\ ~polling
           /\ anchors # None
           /\ last' = <<"on_tree_key_navigate", direction, ctrl_pressed,
                        shift_pressed>>
           /\ selections' = after.sel
           /\ anchors' = after.anc
           /\ UNCHANGED <<calendar_notes, calendar_assignments, undo_stack,
                          redo_stack, state_save_after_id, timers, queue,
                          drag_data, calendar_hover, pointer, polling, raised,
                          workers>>

\* an arrow key in the list of a day, with or without Control and Shift
OnDayOrderKeyPress ==
    \E date_key \in day_cells, direction \in Directions :
      \E ctrl_pressed \in Modifiers, shift_pressed \in Modifiers :
        LET after == day_order_key_navigate(selections, anchors,
                         calendar_assignments, date_key, direction,
                         ctrl_pressed, shift_pressed)
        IN /\ Running /\ ~polling
           /\ anchors # None
           /\ last' = <<"on_day_order_key_navigate", date_key, direction,
                        ctrl_pressed, shift_pressed>>
           /\ selections' = after.sel
           /\ anchors' = after.anc
           /\ UNCHANGED <<calendar_notes, calendar_assignments, undo_stack,
                          redo_stack, state_save_after_id, timers, queue,
                          drag_data, calendar_hover, pointer, polling, raised,
                          workers>>

\* clicks and arrow keys in the tree and in the lists, event by event
NextKeys ==
    \/ OnOrderPressAt
    \/ OnDayOrderPressAt
    \/ OnOrderRelease
    \/ OnDayOrderRelease
    \/ OnTreeKeyPress
    \/ OnDayOrderKeyPress

SpecKeys == InitKeys /\ [][NextKeys]_vars

\* the gestures of the mouse in the tree and in the lists, event by event
NextMouse ==
    \/ OnOrderPressAt
    \/ OnDayOrderPressAt
    \/ OnDrag
    \/ OnOrderRelease
    \/ OnDayOrderRelease

SpecMouse == InitKeys /\ [][NextMouse]_vars

\* the gesture with the pointer followed pixel by pixel
NextThreshold ==
    \/ OnOrderPress
    \/ OnDayOrderPress
    \/ OnDragAt
    \/ OnOrderRelease
    \/ OnDayOrderRelease

SpecThreshold == Init /\ [][NextThreshold]_vars

\* a caller of YBSApp._assign_order_to_day (no handler of the application
\* calls it)
AssignOrderToDay ==
    \E date_key \in day_cells, i \in 1..Len(all_orders) :
        /\ Running /\ ~polling /\ Room
        /\ Runs("assign_order_to_day",
                assign_order_to_day(State, date_key, all_orders[i]).state)
        /\ UNCHANGED <<queue, drag_data, calendar_hover, polling, raised, widgets>>

NextAssign == Next \/ AssignOrderToDay

SpecAssign == Init /\ [][NextAssign]_vars

-----------------------------------------------------------------------------
(* Vocabulary of the properties.                                           *)

\* the store and history of the state a step leads to
StateAfter ==
    [notes |-> calendar_notes', assignments |-> calendar_assignments',
     undo |-> undo_stack', redo |-> redo_stack', save |-> state_save_after_id',
     timers |-> timers']

StoreChanged ==
    \/ calendar_notes' # calendar_notes
    \/ calendar_assignments' # calendar_assignments

\* the list of a day, empty when the day has no key
ListOf(assignments, date_key) == DictGet(assignments, date_key, <<>>)

\* the number of entries of a list equal to an order
Count(list, order) == Cardinality({i \in 1..Len(list) : list[i] = order})

\* the number of assignments of the days in `keys`
RECURSIVE SumLen(_, _)
SumLen(assignments, keys) ==
    IF keys = {} THEN 0
    ELSE LET k == CHOOSE x \in keys : TRUE
         IN Len(assignments[k]) + SumLen(assignments, keys \ {k})

Total(assignments) == SumLen(assignments, DOMAIN assignments)

\* the queue's first message is a drop the handler does not reject
DropPending == queue # <<>> /\ ~drop_rejected(Head(queue))

\* a step in which the drop handler ran to its end on such a message
DropApplied == DropPending /\ PollQueue

\* the message is a drop of items dragged out of a day's list
FromDay(message) ==
    /\ ~drop_rejected(message)
    /\ message.payload[1].source_kind = "calendar"
    /\ message.payload[1].source_date_key # None

CrossDay(message) ==
    /\ FromDay(message)
    /\ message.payload[1].source_date_key[1] # message.payload[1].date_key

SameDay(message) ==
    /\ FromDay(message)
    /\ message.payload[1].source_date_key[1] = message.payload[1].date_key

\* a step of one of the four handlers that change the store: a notes save,
\* a delete or a clear (a step that changes the state bears the name of its
\* handler in last'), or a drop the queue handler applied
StoreOperation ==
    \/ last'[1] \in {"save_day_notes", "on_day_order_delete", "on_day_clear_request"}
    \/ DropApplied

-----------------------------------------------------------------------------
(* Undo and redo.                                                          *)

\* C1: whenever a notes save, a drop the queue handler applied, a delete of
\* selected orders or a clear of a day has changed the store, an undo invoked
\* right after it gives back the notes map and the assignments map of the
\* state before the operation.
C1_UndoRestoresStore ==
    [][(StoreChanged /\ StoreOperation) =>
          LET undone == undo_last_action(StateAfter)
          IN /\ undone.notes = calendar_notes
             /\ undone.assignments = calendar_assignments]_vars

\* an undo has just taken back a drop that moved an order between two days
C1_Witness ==
    /\ last = <<"undo_last_action">>
    /\ redo_stack # <<>>
    /\ redo_stack[Len(redo_stack)].kind = "assignments"
    /\ Cardinality(DOMAIN redo_stack[Len(redo_stack)].dates) = 2

\* C2: an undo followed by a redo, with no other change of the store or of
\* the stacks between them, gives back the notes map and the assignments map
\* the undo found, which after an operation directly followed by the undo
\* is the state right after the operation.
C2_RedoRestoresStore ==
    [][(undo_stack # <<>> /\ UndoLastAction) =>
          LET redone == redo_last_action(StateAfter)
          IN /\ redone.notes = calendar_notes
             /\ redone.assignments = calendar_assignments]_vars

\* a redo has just put back an operation that an undo had taken back
C2_Witness ==
    /\ last = <<"redo_last_action">>
    /\ undo_stack # <<>>
    /\ undo_last_action(State).assignments # calendar_assignments

-----------------------------------------------------------------------------
(* Moves between days.                                                     *)

\* the payload of the queue's first message
Payload == Head(queue).payload[1]

\* the day the dragged items come from and its list
SourceDay == Payload.source_date_key[1]

\* every dragged entry is still in the source day's list when the drop is
\* handled
StillInSource ==
    \A i \in 1..Len(Payload.orders) :
        Count(Payload.orders, Payload.orders[i])
            <= Count(ListOf(calendar_assignments, SourceDay), Payload.orders[i])

\* a step in which the handler ran to its end on a move between two days
CrossDayMove == DropApplied /\ CrossDay(Head(queue))

\* C3: once the drop of an item X dragged from day A onto another day B is
\* applied, X is not in A's list and is exactly once in B's list.
C3_MovedToTargetOnly ==
    [][CrossDayMove =>
          \A i \in 1..Len(Payload.orders) :
              /\ Count(ListOf(calendar_assignments', SourceDay),
                       Payload.orders[i]) = 0
              /\ Count(ListOf(calendar_assignments', Payload.date_key),
                       Payload.orders[i]) = 1]_vars

\* C4 as stated: the move of one item X from day A, which holds it, to
\* another day B leaves the number of assignments of all days together
\* unchanged, whatever A and B held before.
C4_MoveKeepsTotal ==
    [][(CrossDayMove /\ StillInSource /\ Len(Payload.orders) = 1) =>
          Total(calendar_assignments') = Total(calendar_assignments)]_vars

\* the dragged values the target day did not hold before the drop
NewToTarget ==
    {Payload.orders[i] : i \in 1..Len(Payload.orders)}
        \ Range(ListOf(calendar_assignments, Payload.date_key))

\* C4 amended: a move between two days takes every dragged entry out of A
\* and adds to B one entry for every distinct dragged value B did not hold;
\* the total is unchanged when B held none of them, and one less for a
\* single item that B already held.
C4_MoveTotal ==
    [][(CrossDayMove /\ StillInSource) =>
          Total(calendar_assignments') =
              Total(calendar_assignments) - Len(Payload.orders)
                  + Cardinality(NewToTarget)]_vars

\* a move of one item onto a day that already held it has been applied: the
\* item left its day and the total is one less than the undo entry's lists
C4_Witness ==
    /\ last[1] = "handle_calendar_drop"
    /\ CrossDay(last[2])
    /\ Len(last[2].payload[1].orders) = 1
    /\ undo_stack # <<>>
    /\ LET moved == last[2].payload[1]
           entry == undo_stack[Len(undo_stack)]
       IN /\ entry.kind = "assignments"
          /\ DOMAIN entry.dates = {moved.source_date_key[1]}
          /\ moved.orders[1] \in Range(entry.dates[moved.source_date_key[1]].previous[1])
          /\ moved.orders[1] \notin
                 Range(ListOf(calendar_assignments, moved.source_date_key[1]))
          /\ Count(ListOf(calendar_assignments, moved.date_key), moved.orders[1]) = 1

\* the days whose list a step changes
ChangedDays ==
    {k \in DOMAIN calendar_assignments \cup DOMAIN calendar_assignments' :
        \/ (k \in DOMAIN calendar_assignments) # (k \in DOMAIN calendar_assignments')
        \/ /\ k \in DOMAIN calendar_assignments
           /\ k \in DOMAIN calendar_assignments'
           /\ calendar_assignments'[k] # calendar_assignments[k]}

\* C5: a drop the handler applied and that changed the store pushes exactly
\* one entry on the undo stack; the entry holds, for every day whose list
\* changed, the list the day had before the drop; one undo gives every such
\* day its list back, both days of a move between two days.
C5_OneUndoEntryPerDrop ==
    [][(DropApplied /\ StoreChanged) =>
          /\ undo_stack' = Append(undo_stack, undo_stack'[Len(undo_stack')])
          /\ LET entry == undo_stack'[Len(undo_stack')]
             IN /\ entry.kind = "assignments"
                /\ \A k \in ChangedDays :
                      /\ k \in DOMAIN entry.dates
                      /\ entry.dates[k].had_key = (k \in DOMAIN calendar_assignments)
                      /\ entry.dates[k].previous =
                            IF k \in DOMAIN calendar_assignments
                            THEN Some(calendar_assignments[k]) ELSE None
          /\ undo_last_action(StateAfter).assignments = calendar_assignments]_vars

\* a move between two days has been applied and its one undo entry holds
\* the earlier lists of both days
C5_Witness ==
    /\ last[1] = "handle_calendar_drop"
    /\ CrossDay(last[2])
    /\ undo_stack # <<>>
    /\ undo_stack[Len(undo_stack)].kind = "assignments"
    /\ DOMAIN undo_stack[Len(undo_stack)].dates =
           {last[2].payload[1].source_date_key[1], last[2].payload[1].date_key}

-----------------------------------------------------------------------------
(* Drops onto the day the items come from, and failing widgets.            *)

\* C6, for a drop that changes no list: a drop of items dragged from day D
\* back onto D pushes no entry on the undo stack, leaves the redo stack as
\* it is and schedules no save.
C6_SameDayDropIsIdle ==
    [][(DropApplied /\ SameDay(Head(queue))
           /\ calendar_assignments' = calendar_assignments) =>
          /\ undo_stack' = undo_stack
          /\ redo_stack' = redo_stack
          /\ state_save_after_id' = state_save_after_id]_vars

\* a step in which the drop handler ran on a move between two days, to its
\* end or up to an exception of a day cell's widget
CrossDayHandled ==
    /\ DropPending
    /\ CrossDay(Head(queue))
    /\ PollQueue \/ PollQueueRaises

\* the four effects of a move between two days
AllTookEffect ==
    /\ \A i \in 1..Len(Payload.orders) :
          \/ Count(ListOf(calendar_assignments, SourceDay), Payload.orders[i]) = 0
          \/ Count(ListOf(calendar_assignments', SourceDay), Payload.orders[i])
                < Count(ListOf(calendar_assignments, SourceDay), Payload.orders[i])
    /\ \A i \in 1..Len(Payload.orders) :
          Payload.orders[i] \in Range(ListOf(calendar_assignments', Payload.date_key))
    /\ Len(undo_stack') = Len(undo_stack) + 1
    /\ state_save_after_id'

NoneTookEffect ==
    /\ calendar_notes' = calendar_notes
    /\ calendar_assignments' = calendar_assignments
    /\ undo_stack' = undo_stack
    /\ state_save_after_id' = state_save_after_id

\* C7: after the drop handler has run on a move between two days, also when
\* an operation on a day cell's widget failed on the way, either the removal
\* from the source, the insertion in the target, the undo entry and the
\* scheduled save have all taken effect, or the store, the undo stack and
\* the save timer are as they were.
C7_MoveAllOrNothing ==
    [][CrossDayHandled => (AllTookEffect \/ NoneTookEffect)]_vars

-----------------------------------------------------------------------------
(* The lists of the store.                                                 *)

\* C8: in every state reachable from a loaded file, no day's list holds two
\* equal (order number, company) pairs.
C8_NoRepeatedEntry ==
    \A k \in DOMAIN calendar_assignments :
        \A i, j \in 1..Len(calendar_assignments[k]) :
            i # j => calendar_assignments[k][i] # calendar_assignments[k][j]

\* C9: in every state, assigning an order to a day twice leaves the day's
\* list with one occurrence of it; the second call returns false, pushes no
\* undo entry and schedules no save.
C9_SecondAssignIsIdle ==
    \A date_key \in day_cells, i \in 1..Len(all_orders) :
        LET first == assign_order_to_day(State, date_key, all_orders[i])
            second == assign_order_to_day(first.state, date_key, all_orders[i])
        IN /\ Count(ListOf(second.state.assignments, date_key), all_orders[i]) = 1
           /\ second.returned = FALSE
           /\ second.state.undo = first.state.undo
           /\ second.state.save = first.state.save

\* C10: in every state no day of the assignments map has an empty list; a
\* day without assignments has no key.
C10_NoEmptyList ==
    \A k \in DOMAIN calendar_assignments : calendar_assignments[k] # <<>>

\* a delete has just taken the last orders of a day, which had a key before
\* and has none now
C10_Witness ==
    /\ last = <<"on_day_order_delete">>
    /\ undo_stack # <<>>
    /\ undo_stack[Len(undo_stack)].kind = "assignments"
    /\ \E k \in DOMAIN undo_stack[Len(undo_stack)].dates :
          /\ undo_stack[Len(undo_stack)].dates[k].had_key
          /\ k \notin DOMAIN calendar_assignments

-----------------------------------------------------------------------------
(* The notes of the store.                                                 *)

\* C11: in every state reachable from a loaded file, no day of the notes
\* map has the empty string as its note; a day without notes has no key.
C11_NoEmptyNote ==
    \A k \in DOMAIN calendar_notes : calendar_notes[k] # <<>>

\* the note a text stands for: none when the text is blank
Effective(text) == IF has_text(text) THEN Some(text) ELSE None

\* the note a day's stored entry stands for
StoredEffective(notes, date_key) ==
    IF date_key \in DOMAIN notes THEN Effective(notes[date_key]) ELSE None

\* C12: in every state, saving a day's notes with a text that stands for
\* the note the store already stands for changes nothing: the notes map,
\* the undo stack, the redo stack and the save timer stay as they are.
C12_SameNoteIsIdle ==
    \A date_key \in day_cells, new_text \in NoteTexts :
        Effective(new_text) = StoredEffective(calendar_notes, date_key)
            => save_day_notes(State, date_key, new_text) = State

-----------------------------------------------------------------------------
(* The state file.                                                         *)

\* C13: for the store of every reachable state, the file _save_state
\* writes is loaded back by _load_state as the same notes map and the same
\* assignments map: same date keys, same texts, same lists in the same
\* order.
C13_SaveLoadRoundTrip ==
    LET loaded == load_state(save_state(calendar_notes, calendar_assignments))
    IN /\ loaded.notes = calendar_notes
       /\ loaded.assignments = calendar_assignments

\* a store changed by a drop holds notes and the lists of days of two
\* months
C13_Witness ==
    /\ last[1] = "handle_calendar_drop"
    /\ DOMAIN calendar_notes # {}
    /\ \E a, b \in DOMAIN calendar_assignments : a[2] # b[2]
    /\ \E k \in DOMAIN calendar_assignments : Len(calendar_assignments[k]) > 1

\* C14, first sentence: loading a missing or malformed file raises nothing
\* and yields an empty notes map and an empty assignments map.
C14_MalformedFileLoadsEmpty ==
    (/\ last[1] \in {"load_state", "load_state raised"}
     /\ (last[2] = None \/ load_raises(last[2])))
        => /\ last[1] = "load_state"
           /\ calendar_notes = EmptyDict
           /\ calendar_assignments = EmptyDict

-----------------------------------------------------------------------------
(* The history stacks.                                                     *)

\* a step of a handler that ended in an exception
HandlerRaised == last'[1] = "handle_calendar_drop raised"

UndoStep == last'[1] = "undo_last_action"
RedoStep == last'[1] = "redo_last_action"

\* C15: a notes save, an applied drop, a delete or a clear that changes
\* the store leaves the redo stack empty; a redo takes its entry from the
\* redo stack, pushes one undo entry and leaves the rest of the redo stack;
\* and no other handler that runs to its end changes the store, so a
\* non-empty redo stack means the last change of the store was an undo or a
\* redo.
C15_RedoClearedByOperations ==
    [][/\ (StoreChanged /\ StoreOperation) => redo_stack' = <<>>
       /\ RedoStep =>
             /\ redo_stack' = SubSeq(redo_stack, 1, Len(redo_stack) - 1)
             /\ Len(undo_stack') = Len(undo_stack) + 1
       /\ (StoreChanged /\ ~HandlerRaised) =>
             (StoreOperation \/ UndoStep \/ RedoStep)]_vars

\* a redo has pushed its undo entry and an older entry is still on the
\* redo stack
C15_Witness ==
    /\ last = <<"redo_last_action">>
    /\ redo_stack # <<>>
    /\ undo_stack # <<>>

\* C16: the undo stack never holds more than undo_stack_limit (100)
\* entries, and a change of the store other than an undo, which pushes onto
\* the stack, made while the stack is full discards the oldest entry and
\* keeps the 100 most recent entries in their order.
C16_UndoStackBounded ==
    /\ Len(undo_stack) <= undo_stack_limit
    /\ [][/\ Len(undo_stack') <= undo_stack_limit
          /\ (/\ Len(undo_stack) = undo_stack_limit
              /\ StoreChanged
              /\ ~UndoStep) =>
                /\ Len(undo_stack') = undo_stack_limit
                /\ SubSeq(undo_stack', 1, undo_stack_limit - 1) = Tail(undo_stack)]_vars

\* a push onto a full stack has discarded the entry of the first edit
C16_Witness ==
    /\ Len(undo_stack) = undo_stack_limit
    /\ undo_stack[1] = older_entry(2)
    /\ ~IsOlder(undo_stack[undo_stack_limit])

\* C17: an undo with an empty undo stack and a redo with an empty redo
\* stack are no-ops: the notes, the assignments, both stacks and the save
\* timer are as they were before the handler ran.
C17_EmptyStackIsIdle ==
    /\ undo_stack = <<>> => undo_last_action(State) = State
    /\ redo_stack = <<>> => redo_last_action(State) = State

\* every operation was undone and the file was written: a further undo finds
\* the undo stack empty and does nothing, while a redo still changes the state
C17_Witness ==
    /\ undo_stack = <<>>
    /\ redo_stack # <<>>
    /\ ~state_save_after_id
    /\ last = <<"save_state">>
    /\ redo_last_action(undo_last_action(State)) # State

\* the timer of the debounced save was cleared by this step
SaveTimerCleared == state_save_after_id /\ ~state_save_after_id'

\* C18: every step that changes the notes or the assignments ends with a
\* debounced save pending, and the pending save ends only with the store
\* written to the file, so that the store differs from the last written file
\* only while a save is pending.
C18_StoreWrittenWhenNotPending ==
    [][/\ (StoreChanged /\ ~HandlerRaised) => state_save_after_id'
       /\ SaveTimerCleared => last' = <<"save_state">>]_vars

\* C18, amended: every step that changes the notes or the assignments ends
\* with a debounced save pending, and the pending save ends only by a run of
\* _save_state, which writes the store to the file unless the write raises
\* OSError.
C18_ChangeLeavesSavePending ==
    [][/\ (StoreChanged /\ ~HandlerRaised) => state_save_after_id'
       /\ SaveTimerCleared =>
            /\ last'[1] \in {"save_state", "save_state not written"}
            /\ ~StoreChanged]_vars

\* an operation changed the store and left a save pending, an undo changed
\* it again, and the run of _save_state that ended the pending save did not
\* write the file
C18_Witness ==
    /\ last = <<"save_state not written">>
    /\ ~state_save_after_id
    /\ redo_stack # <<>>
    /\ undo_last_action(State) = State

\* the message of a release over no calendar day
NoDayUnderPointer == DropFailure("Please drop orders onto a valid calendar day.")

\* a release of a drag
ReleaseStep ==
    /\ last'[1] \in {"on_order_release", "on_day_order_release"}
    /\ Len(queue') = Len(queue) + 1

\* a step in which the drop handler ran on the message of a release over no
\* calendar day
NoDayHandled ==
    /\ queue # <<>>
    /\ Head(queue) = NoDayUnderPointer
    /\ queue' = Tail(queue)
    /\ last' = <<"handle_calendar_drop", NoDayUnderPointer>>

\* C19: a drag released where no calendar day lies under the pointer changes
\* nothing, and the handling of the failure it queued changes nothing either:
\* the notes, the assignments, both stacks and the save timer are as they
\* were.
C19_InvalidTargetChangesNothing ==
    [][/\ ReleaseStep => State' = State
       /\ NoDayHandled => State' = State]_vars

\* the message of a release over no day was handled while the store held
\* entries, a file was written and an undo entry could have been popped
C19_Witness ==
    /\ last = <<"handle_calendar_drop", NoDayUnderPointer>>
    /\ undo_stack # <<>>
    /\ ~state_save_after_id
    /\ DOMAIN calendar_assignments # {}
    /\ queue = <<>>

\* the drag state Idle: no payload, no drag active, no floating indicator and
\* no day highlighted under the pointer
Idle ==
    /\ drag_data.items = <<>>
    /\ drag_data.values = <<>>
    /\ ~drag_data.active
    /\ ~drag_data.widget
    /\ calendar_hover = None

\* C20: after every release, in the orders tree or in the list of a day and
\* whatever it did (queued a drop, queued a failure, found no payload or no
\* active drag), the drag state is Idle.
C20_IdleAfterRelease ==
    last[1] \in {"on_order_release", "on_day_order_release"} => Idle

\* a drag out of a day's list was released over a day and queued its drop
C20_Witness ==
    /\ last[1] = "on_day_order_release"
    /\ queue # <<>>
    /\ queue[Len(queue)].success
    /\ queue[Len(queue)].payload[1].source_kind = "calendar"
    /\ Idle

-----------------------------------------------------------------------------
(* Close and the debounced save.                                           *)

Closed == last[1] \in {"on_close", "on_close not written"}

\* C21: after _on_close no save timer is pending, and when the write
\* succeeded the file loads as the store the application held.
C21_CloseFlushesStore ==
    /\ Closed => (timers = 0 /\ ~state_save_after_id)
    /\ last[1] = "on_close" =>
          LET loaded == load_state(last[2])
          IN /\ loaded.notes = calendar_notes
             /\ loaded.assignments = calendar_assignments

\* the window was closed while the save of an operation was pending
C21_Witness ==
    /\ last[1] = "on_close"
    /\ last[3]
    /\ undo_stack # <<>>
    /\ DOMAIN calendar_notes # {}
    /\ DOMAIN calendar_assignments # {}
    /\ timers = 0

\* a step in which a timer expired and _save_state wrote the file
WriteStep == timers > 0 /\ last' = <<"save_state">> /\ timers' = timers - 1

\* C22: at most one save timer is pending; a change of the store made while
\* a timer is pending leaves exactly one timer pending and writes nothing;
\* the write of the expiring timer leaves no timer and does not change the
\* store, so a burst of changes is followed by one write, of the store after
\* the last change.
C22_OneWritePerBurst ==
    /\ timers = 0 /\ ~state_save_after_id
    /\ [][/\ timers' <= 1
          /\ state_save_after_id' <=> timers' = 1
          /\ (StoreChanged /\ ~HandlerRaised) => (timers' = 1 /\ ~WriteStep)
          /\ timers' < timers => (WriteStep /\ timers' = 0 /\ ~StoreChanged)]_vars

\* two changes of the store were made, the second by a notes save, and one
\* timer is pending
C22_Witness ==
    /\ Len(undo_stack) = 2
    /\ last = <<"save_day_notes">>
    /\ state_save_after_id
    /\ timers = 1

-----------------------------------------------------------------------------
(* Drops out of the orders tree.                                           *)

\* the message is a drop of rows dragged out of the orders tree
FromTree(message) ==
    /\ ~drop_rejected(message)
    /\ message.payload[1].source_kind = "tree"

\* the orders of a payload follow the order of the rows of the tree
InTreeOrder(orders) ==
    \A i, j \in 1..Len(orders) :
        i < j => IndexOf(all_orders, orders[i]) < IndexOf(all_orders, orders[j])

\* a step in which the handler ran to its end on a drop out of the tree
TreeDropHandled ==
    /\ queue # <<>>
    /\ FromTree(Head(queue))
    /\ queue' = Tail(queue)
    /\ last' = <<"handle_calendar_drop", Head(queue)>>

\* C23: a release of rows dragged out of the orders tree queues them in the
\* order of the rows, and the handled drop leaves the day's list as it was,
\* followed by the dragged orders the list did not hold, in that order.
C23_TreeDropAppendsInOrder ==
    [][/\ (last'[1] = "on_order_release" /\ Len(queue') = Len(queue) + 1
             /\ FromTree(queue'[Len(queue')])) =>
                 /\ InTreeOrder(queue'[Len(queue')].payload[1].orders)
                 /\ Range(queue'[Len(queue')].payload[1].orders) \subseteq Range(all_orders)
       /\ TreeDropHandled =>
            LET before == ListOf(calendar_assignments, Payload.date_key)
                IsNew(order) == order \notin Range(before)
            IN ListOf(calendar_assignments', Payload.date_key)
                   = before \o SelectSeq(Payload.orders, IsNew)]_vars

\* both rows of the tree were dropped on a day that held the second one: the
\* first was appended after it
C23_Witness ==
    /\ last[1] = "handle_calendar_drop"
    /\ FromTree(last[2])
    /\ Len(last[2].payload[1].orders) = 2
    /\ ListOf(calendar_assignments, last[2].payload[1].date_key)
           = <<all_orders[2], all_orders[1]>>

-----------------------------------------------------------------------------
(* The gesture event by event.                                             *)

\* a pointer move of a gesture that has a payload and is not yet a drag
PressedMove ==
    /\ drag_data.items # <<>>
    /\ ~drag_data.active
    /\ Len(last') = 3
    /\ last'[1] \in {"on_order_drag", "on_day_order_drag"}

\* C25: a pressed gesture with a payload becomes an active drag on a pointer
\* move exactly when the Euclidean distance of the pointer from the press
\* point exceeds DRAG_THRESHOLD.
C25_EuclideanThreshold ==
    [][PressedMove =>
          (drag_data'.active <=>
              last'[2] * last'[2] + last'[3] * last'[3]
                  > DRAG_THRESHOLD * DRAG_THRESHOLD)]_vars

\* C25, amended: a pressed gesture with a payload becomes an active drag on
\* a pointer move exactly when the pointer is DRAG_THRESHOLD pixels or more
\* from the press point along the x axis or along the y axis.
C25_AxisThreshold ==
    [][PressedMove =>
          (drag_data'.active <=>
              (Abs(last'[2]) >= DRAG_THRESHOLD \/ Abs(last'[3]) >= DRAG_THRESHOLD))]_vars

\* the pointer is 4 pixels right of and 4 pixels below the press point, more
\* than 5 pixels away, and the gesture is not a drag
C25_Witness ==
    /\ last = <<"on_day_order_drag", 4, 4>>
    /\ drag_data.items # <<>>
    /\ ~drag_data.active
    /\ ~drag_data.widget

\* a release that ends a gesture with a payload that never became a drag
ReleaseOfPressed ==
    /\ last'[1] \in {"on_order_release", "on_day_order_release"}
    /\ drag_data.items # <<>>
    /\ ~drag_data.active

\* a press or a pointer move
PressOrMove ==
    last'[1] \in {"on_order_press", "on_day_order_press", "on_order_drag",
                  "on_day_order_drag"}

\* C26: a press, the pointer moves that do not make the gesture a drag and
\* the release that follows queue no drop message and change neither the
\* notes, the assignments, the undo stack nor the redo stack.
C26_ClickChangesNothing ==
    [][(ReleaseOfPressed \/ PressOrMove) =>
          /\ queue' = queue
          /\ calendar_notes' = calendar_notes
          /\ calendar_assignments' = calendar_assignments
          /\ undo_stack' = undo_stack
          /\ redo_stack' = redo_stack]_vars

\* rows of the tree were pressed and released before the gesture became a
\* drag: nothing is queued
C26_Witness ==
    /\ Len(last) = 3
    /\ last[1] = "on_order_release"
    /\ last[2]
    /\ ~last[3]
    /\ queue = <<>>
    /\ undo_stack = <<>>

\* the drag state Idle in the state a step leads to
IdleAfter ==
    /\ drag_data'.items = <<>>
    /\ drag_data'.values = <<>>
    /\ ~drag_data'.active
    /\ ~drag_data'.widget
    /\ calendar_hover' = None

\* C27: when the day cells are destroyed while a gesture out of a day's list
\* is Pressed or Dragging, the drag state is Idle once the calendar is
\* rendered again.
C27_RenderCancelsDrag ==
    [][(last'[1] = "go_to_today" /\ drag_data.source = "calendar") => IdleAfter]_vars

\* C28: a day is highlighted as the drop target only while the gesture is a
\* drag; the pointer moves of a gesture that is Pressed set no highlight.
C28_HoverOnlyWhileDragging == calendar_hover # None => drag_data.active

-----------------------------------------------------------------------------
(* The hover colours during a drag.                                        *)

\* C29: in every state during a drag at most one day cell carries a hover
\* highlight, the drag highlight of a day having removed the highlight of
\* every other day; found violated: a pointer hover set on the day of the
\* press stays when the first highlight of the drag lands on another day
C29_OneHighlightedDay ==
    IF pointer = None THEN TRUE
    ELSE drag_data.active => Cardinality(pointer.highlighted) <= 1

-----------------------------------------------------------------------------
(* The selections.                                                         *)

\* C24: when a drop out of the orders tree that is reported as successful
\* has been applied, no row of the tree is selected, also when the day
\* already held every dropped order; found violated in that last case
C24_TreeDropClearsTreeSelection ==
    [][(selections # None /\ TreeDropHandled /\ Head(queue).success) =>
           selections'.tree = {}]_vars

\* the number of containers that have a selection: the orders tree and the
\* lists of the days
Selected ==
    (IF selections.tree # {} THEN 1 ELSE 0)
        + Cardinality({k \in day_cells : selections.lists[k] # {}})

\* C30: in every state at most one container, the orders tree or the list
\* of one day, has a selection; found violated: a press in the list of a day
\* leaves the selection of the tree
C30_OneContainerSelected ==
    IF selections = None THEN TRUE ELSE Selected <= 1

-----------------------------------------------------------------------------
(* Drops out of the list of a day.                                         *)

\* a step in which the handler ran to its end on a drop of items dragged out
\* of the list of a day
DayDropHandled ==
    /\ queue # <<>>
    /\ FromDay(Head(queue))
    /\ queue' = Tail(queue)
    /\ last' = <<"handle_calendar_drop", Head(queue)>>

\* C38: the handled drop of items dragged from the list of day D onto D,
\* which still holds them, leaves D's list with the same set of entries: the
\* entries that were not dragged, in their order, followed by the dragged
\* entries in payload order; found violated for a list that holds an entry
\* twice
C38_SameDayDropReappends ==
    [][(DayDropHandled /\ SameDay(Head(queue)) /\ StillInSource) =>
          LET before == ListOf(calendar_assignments, Payload.date_key)
              after == ListOf(calendar_assignments', Payload.date_key)
              NotDragged(order) == order \notin Range(Payload.orders)
          IN /\ Range(after) = Range(before)
             /\ after = SelectSeq(before, NotDragged) \o Payload.orders]_vars

\* C37: a handled drop of items dragged out of the list of a day never
\* increases the number of assignments of all days together, also when a
\* delete, a clear, an undo or a redo ran between the release and the poll;
\* found violated: the handler appends an order it could not remove
C37_DayDropAddsNothing ==
    [][DayDropHandled =>
          Total(calendar_assignments') <= Total(calendar_assignments)]_vars

\* the 0-based positions the handler takes out of the source list for the
\* first n dragged items, in payload order
RemovedUpTo(n) ==
    find_removals(ListOf(calendar_assignments, SourceDay),
                  SubSeq(Payload.source_orders, 1, n),
                  Payload.source_indices, 1, <<>>)

\* C35: when a drop of items dragged out of the list of a day is handled,
\* the entry removed for each dragged item, in payload order, is the one at
\* the index captured at the press if that position holds an equal value no
\* earlier item has claimed, else the first unclaimed position holding an
\* equal value, else none; the other entries stay in the source list in
\* their order
C35_RemovesCapturedOccurrence ==
    [][DayDropHandled =>
          LET list == ListOf(calendar_assignments, SourceDay)
              items == Payload.source_orders
              hints == Payload.source_indices
              left == RemovePositions(list, {i + 1 : i \in Range(RemovedUpTo(Len(items)))})
              after == ListOf(calendar_assignments', SourceDay)
          IN /\ \A p \in 1..Len(items) :
                    LET earlier == RemovedUpTo(p - 1)
                        Free(i) == /\ i \in 0..(Len(list) - 1)
                                   /\ i \notin Range(earlier)
                                   /\ list[i + 1] = items[p]
                        free == {i \in 0..(Len(list) - 1) : Free(i)}
                    IN RemovedUpTo(p) =
                           IF p <= Len(hints) /\ Free(hints[p])
                           THEN Append(earlier, hints[p])
                           ELSE IF free # {} THEN Append(earlier, Min(free))
                           ELSE earlier
             /\ \A i \in Range(RemovedUpTo(Len(items))) :
                    list[i + 1] \in Range(items)
             /\ IF CrossDay(Head(queue)) THEN after = left
                ELSE Len(after) >= Len(left) /\ SubSeq(after, 1, Len(left)) = left]_vars

\* the second of two equal entries of a day was dragged to another day: the
\* handler took out the entry at the captured index 1
C35_Witness ==
    /\ last[1] = "handle_calendar_drop"
    /\ CrossDay(last[2])
    /\ last[2].payload[1].source_indices = <<1>>
    /\ undo_stack # <<>>
    /\ LET moved == last[2].payload[1]
           entry == undo_stack[Len(undo_stack)]
       IN /\ entry.kind = "assignments"
          /\ moved.source_date_key[1] \in DOMAIN entry.dates
          /\ entry.dates[moved.source_date_key[1]].previous
                 = Some(<<moved.orders[1], moved.orders[1]>>)
          /\ ListOf(calendar_assignments, moved.source_date_key[1])
                 = <<moved.orders[1]>>

-----------------------------------------------------------------------------
(* Undo followed by redo.                                                  *)

\* C39: an undo followed at once by a redo leaves the undo stack and the
\* redo stack as they were before the undo
C39_UndoRedoKeepsStacks ==
    undo_stack # <<>> =>
        LET s == redo_last_action(undo_last_action(State))
        IN s.undo = undo_stack /\ s.redo = redo_stack

\* an entry was undone and redone while an older undone entry waits on the
\* redo stack
C39_Witness ==
    /\ last = <<"redo_last_action">>
    /\ undo_stack # <<>>
    /\ redo_stack # <<>>
    /\ undo_stack[Len(undo_stack)].kind = "assignments"

-----------------------------------------------------------------------------
(* The order of the queue.                                                 *)

\* the handlers the poll calls, as `last` names them
PollHandlers ==
    {"handle_calendar_drop", "handle_calendar_drop raised", "handle_login_result"}

\* a writer puts one message behind the messages queued
PutBehind ==
    /\ Len(queue') = Len(queue) + 1
    /\ SubSeq(queue', 1, Len(queue)) = queue

\* the poll hands the oldest message to its handler
OldestHandled ==
    /\ queue # <<>>
    /\ queue' = Tail(queue)
    /\ last'[1] \in PollHandlers
    /\ last'[2] = Head(queue)

\* C36: the messages of the worker threads and of the release handlers are
\* handled in the order in which they were queued, within one poll and across
\* polls: every step that changes the queue either puts one message behind
\* all the queued ones or hands the oldest one to its handler, and a handler
\* runs on no other message
C36_HandledInQueueOrder ==
    [][/\ queue' # queue => (PutBehind \/ OldestHandled)
       /\ (last' # last /\ last'[1] \in PollHandlers) => OldestHandled]_vars

\* a drop was handled inside a poll while the result of a worker thread,
\* queued behind it, waits for the next iteration
C36_Witness ==
    /\ polling
    /\ last[1] = "handle_calendar_drop"
    /\ Len(queue) = 1
    /\ queue[1].type = "login_result"

\* C40: while the application is open every queued message is handled in the
\* end, also after a handler raised: a message leaves the queue only in the
\* hands of its handler, and a queue that holds messages is drained until it
\* is empty unless the window is closed first
C40_QueuedIsHandled ==
    /\ [][Len(queue') < Len(queue) => OldestHandled]_vars
    /\ (queue # <<>>) ~> (queue = <<>> \/ ~Running)

\* a handler raised inside a poll and a message is still queued behind the
\* one it was handling
C40_Witness ==
    /\ last[1] = "handle_calendar_drop raised"
    /\ queue # <<>>
    /\ ~polling
    /\ Running

-----------------------------------------------------------------------------
(* The selections after a move to another day.                             *)

\* a step in which the drop handler ran to its end on a drop of items dragged
\* from one day onto another, and changed the store
CrossDayApplied ==
    /\ DayDropHandled
    /\ CrossDay(Head(queue))
    /\ calendar_assignments' # calendar_assignments

\* the 0-based indices of the list of a day at which items of the payload sit
MovedIndices(assignments, payload) ==
    {i - 1 : i \in {j \in 1..Len(ListOf(assignments, payload.date_key)) :
                        ListOf(assignments, payload.date_key)[j] \in Range(payload.orders)}}

\* C34 as stated: after a move from one day to another the list of the source
\* day has no selection and the list of the target day has exactly the moved
\* items selected
C34_TargetSelectsMoved ==
    [][CrossDayApplied =>
          /\ selections'.lists[SourceDay] = {}
          /\ selections'.lists[Payload.date_key] =
                 MovedIndices(calendar_assignments', Payload)]_vars

\* C34, amended: after a move from one day to another neither the list of the
\* source day nor the list of the target day, nor that of any other day, has
\* a selection
C34_CrossDayMoveDeselects ==
    [][CrossDayApplied => \A k \in day_cells : selections'.lists[k] = {}]_vars

\* a move from one day to another was applied while the list of the source
\* day had the moved item selected
C34_Witness ==
    /\ selections # None
    /\ last[1] = "handle_calendar_drop"
    /\ CrossDay(last[2])
    /\ undo_stack # <<>>
    /\ last[2].payload[1].orders \in
           {<<o>> : o \in Range(ListOf(calendar_assignments, last[2].payload[1].date_key))}
    /\ \A k \in day_cells : selections.lists[k] = {}

-----------------------------------------------------------------------------
(* Control and Shift with the mouse and with the arrow keys.               *)

\* a step of a press in the tree on a row, with the row and the keys that
\* `last` keeps
TreePress == last'[1] = "on_order_press" /\ last'[2] # None
DayPress == last'[1] = "on_day_order_press" /\ last'[3] # None
TreeKey == last'[1] = "on_tree_key_navigate"
DayKey == last'[1] = "on_day_order_key_navigate"

\* a press with Control alone on a row of the tree that is selected
CtrlPressOnSelectedRow ==
    /\ TreePress
    /\ last'[3] /\ ~last'[4]
    /\ last'[2][1] \in selections.tree

\* a press with Control alone on an entry of a list that is selected
CtrlPressOnSelectedEntry ==
    /\ DayPress
    /\ last'[4] /\ ~last'[5]
    /\ last'[3][1] \in selections.lists[last'[2]]

\* the selection of the widget in which the gesture began
SelectedAtSource(sel) ==
    IF drag_data.source = "tree" THEN sel.tree
    ELSE sel.lists[drag_data.source_date_key[1]]

\* a motion or a release of a gesture that carries items
CarriesItems ==
    /\ last'[1] \in {"on_order_drag", "on_day_order_drag", "on_order_release",
                     "on_day_order_release"}
    /\ drag_data.source # "none"
    /\ drag_data.items # <<>>

\* C31: in the tree and in the list of a day a press with Control on a
\* selected item leaves it selected; while the pointer moves the items the
\* press recorded stay selected; a release deselects an item only when the
\* gesture never became a drag
C31_CtrlPressDefersToggle ==
    [][/\ CtrlPressOnSelectedRow => last'[2][1] \in selections'.tree
       /\ CtrlPressOnSelectedEntry =>
              last'[3][1] \in selections'.lists[last'[2]]
       /\ (CarriesItems /\ (drag_data.active \/ drag_data'.active
                            \/ last'[1] \in {"on_order_drag", "on_day_order_drag"}))
              => Range(drag_data.items) \subseteq SelectedAtSource(selections')]_vars

\* C32: a press or an arrow key with Shift, in the tree or in the list of a
\* day whose anchor is one of its rows, selects exactly the rows from the
\* anchor to the row pressed or reached, and leaves the anchor as it was
C32_ShiftSelectsRange ==
    [][/\ (TreePress /\ last'[4] /\ anchors.tree_anchor # None) =>
              /\ selections'.tree = Between(anchors.tree_anchor[1], last'[2][1])
              /\ anchors'.tree_anchor = anchors.tree_anchor
       /\ (TreeKey /\ last'[4] /\ anchors.tree_anchor # None) =>
              /\ selections'.tree = Between(anchors.tree_anchor[1],
                                            anchors'.tree_focus[1])
              /\ anchors'.tree_anchor = anchors.tree_anchor
       /\ (DayPress /\ last'[5] /\ anchors.day_anchor[last'[2]] # None) =>
              /\ selections'.lists[last'[2]] =
                     Between(anchors.day_anchor[last'[2]][1], last'[3][1])
              /\ anchors'.day_anchor = anchors.day_anchor
       /\ (DayKey /\ last'[5] /\ anchors.day_anchor[last'[2]] # None) =>
              /\ selections'.lists[last'[2]] =
                     Between(anchors.day_anchor[last'[2]][1],
                             anchors'.active[last'[2]])
              /\ anchors'.day_anchor = anchors.day_anchor]_vars

\* a press with Shift on the second entry of a day whose anchor is the first
\* entry selected both entries and left the anchor on the first
C32_Witness ==
    /\ anchors # None
    /\ last[1] = "on_day_order_press"
    /\ last[3] = Some(1)
    /\ last[5]
    /\ anchors.day_anchor[last[2]] = Some(0)
    /\ selections.lists[last[2]] = {0, 1}

\* C33: in the tree and in the list of a day an arrow key with Control moves
\* the focus by one row, not past the first or the last one, and changes
\* neither the selection nor the anchor
C33_CtrlArrowMovesFocusOnly ==
    [][/\ (TreeKey /\ last'[3] /\ ~last'[4]) =>
              /\ selections' = selections
              /\ anchors'.tree_anchor = anchors.tree_anchor
              /\ anchors.tree_focus # None =>
                     anchors'.tree_focus =
                         Some(Clamp(anchors.tree_focus[1] + last'[2],
                                    Len(all_orders)))
       /\ (DayKey /\ last'[4] /\ ~last'[5]) =>
              /\ selections' = selections
              /\ anchors'.day_anchor = anchors.day_anchor
              /\ ListOf(calendar_assignments, last'[2]) # <<>> =>
                     anchors'.active[last'[2]] =
                         Clamp(anchors.active[last'[2]] + last'[3],
                               Len(ListOf(calendar_assignments, last'[2])))]_vars

====
